---- MODULE Spec2Model ----
(***************************************************************************)
(* A model of the freeSound backend (src/backend): the collection packager *)
(* SoundCloudDownloader._stream_playlist_zip with its item tasks and the   *)
(* download admission gate, the buffered transcode job                     *)
(* _download_with_ffmpeg, and SoundCloudClient.resolve with get_client_id. *)
(***************************************************************************)
EXTENDS Integers, Sequences, FiniteSets, TLC

(***************************************************************************)
(* Bounds of the model.                                                    *)
(***************************************************************************)
\* the largest number of item tasks alive in one behaviour (all requests)
MaxTracks == 4
\* the number of collection requests that may share the downloader
NumRequests == 2
\* the number of transcode jobs (_download_with_ffmpeg calls) in one behaviour
NumJobs == 2
\* the largest number of transcoding descriptors of a track
MaxTranscodings == 3
\* the largest number of items of a collection whose info is formatted
MaxItems == 2
\* the number of concurrent resolve calls on one client
NumCallers == 2
\* the largest number of ids passed to one batch lookup
MaxIds == 101
\* the number of item assemblies (download_track and _download_track_to_memory
\* calls) in one behaviour of the assemblies
NumAssemblies == 1

(***************************************************************************)
(* Program constants.                                                      *)
(***************************************************************************)
\* utils/constants.py: MAX_CONCURRENT_DOWNLOADS = 3
MAX_CONCURRENT_DOWNLOADS == 3
\* utils/constants.py: MAX_CONCURRENT_FFMPEG = 2
MAX_CONCURRENT_FFMPEG == 2
\* utils/constants.py: MIN_FILE_SIZE = 10 * 1024
MIN_FILE_SIZE == 10 * 1024
\* utils/constants.py: BATCH_SIZE = 50
BATCH_SIZE == 50
\* soundcloud_client.py, resolve: max_retries = 2
max_retries == 2
\* soundcloud_client.py: SoundCloudClient.CLIENT_IDS, the static fallback list
CLIENT_IDS == <<"xXKzFLdh", "LvWovRaZ", "dH1Xed1f", "02gUJC0h">>

Requests == 1..NumRequests
Indices == 0..(MaxTracks - 1)
Tasks == Requests \X Indices
Jobs == 1..NumJobs
Callers == 1..NumCallers
\* assembly a runs its transcodes as job a
Assemblies == 1..NumAssemblies

\* a task's result: None is the empty tuple, (idx, filename, track_bytes)
\* the tuple <<idx>> (the file name and the bytes are those of track idx)
None == <<>>

\* the fate of a task that has not run its assembly yet
NoFate == "-"

\* the token the central directory / end record written by ZipFile.close()
\* is modelled by; entries are modelled by the index of the track they hold
CentralDirectory == -1

VARIABLES
    \* ---- inputs of the collection requests
    total_tracks,       \* [Requests -> Nat]: len(tracks) of each request, 0: no request
    \* ---- SoundCloudDownloader (shared by all requests)
    download_semaphore, \* value of self.download_semaphore
    download_waiters,   \* FIFO of the tasks waiting in download_semaphore.acquire()
    \* ---- item tasks download_and_add_track(idx, track_data)
    task_pc,            \* [Tasks -> {"none","waiting","running","done"}]
    fate,               \* [Tasks -> the class of what the item's assembly met (input)]
    result,             \* [Tasks -> the task's result: None or <<idx>>]
    task_raised,        \* [Tasks -> BOOLEAN]: the task ended with an exception
    \* ---- the generator _stream_playlist_zip of each request
    gen_pc,             \* "idle","await","yield_entry","yield_final","ended","failed","closed"
    done_queue,         \* asyncio.as_completed: the indices of the finished tasks, in completion order
    taken,              \* number of iterations of the as_completed loop begun (tasks taken from done_queue)
    completed_tracks,   \* the pending map: set of indices held
    next_expected_idx,
    tracks_added,
    last_zip_size,
    zip_lock,           \* BOOLEAN: zip_lock is held
    zip_path,           \* content of the backing archive file (sequence of tokens)
    zip_exists,         \* BOOLEAN: the backing archive file exists
    emitted             \* the chunks yielded to the caller, in order

pvars == <<total_tracks, download_semaphore, download_waiters, task_pc, fate,
           result, task_raised, gen_pc, done_queue, taken, completed_tracks,
           next_expected_idx, tracks_added, last_zip_size, zip_lock, zip_path,
           zip_exists, emitted>>

VARIABLES
    \* ---- the transcode gate of the downloader
    ffmpeg_semaphore,   \* value of self.ffmpeg_semaphore
    ffmpeg_waiters,     \* FIFO of the jobs waiting in ffmpeg_semaphore.acquire()
    \* ---- transcode jobs _download_with_ffmpeg(m3u8_url, output_path)
    job_pc,             \* "idle","waiting","encoding","fetching","encoding_retry","done"
    m3u8_url,           \* [Jobs -> the manifest URL: the set of markers it contains]
    output_path,        \* [Jobs -> [exists, size] of the output file]
    temp_m3u8,          \* [Jobs -> BOOLEAN]: the local manifest copy exists
    returncode,         \* [Jobs -> exit code of the job's last encoder process]
    drm_error,          \* [Jobs -> BOOLEAN]: drm_error of _download_with_ffmpeg (scan of the first stderr)
    retry_drm_error,    \* [Jobs -> BOOLEAN]: drm_error of _retry_with_headers (scan of the body, of the second stderr)
    encoder_runs,       \* [Jobs -> number of encoder processes the job started]
    encoder_total,      \* [Jobs -> number of encoder processes started over all the jobs of caller j]
    job_result          \* [Jobs -> "True", "False", "drm_error", "error"; "-" while running]

tvars == <<ffmpeg_semaphore, ffmpeg_waiters, job_pc, m3u8_url, output_path,
           temp_m3u8, returncode, drm_error, retry_drm_error, encoder_runs, encoder_total,
           job_result>>

VARIABLES
    \* ---- the encoder processes of _stream_track_directly (no gate)
    stream_pc,          \* [Jobs -> "idle","running","orphan","exited"]
    stream_returncode,  \* [Jobs -> exit code of the streaming encoder process]
    stream_sent,        \* [Jobs -> number of bytes generate() has yielded]
    \* ---- item assemblies: _download_track_to_memory (kind "item") and
    \* ---- download_track (kinds "buffered" and "streaming")
    asm_kind,           \* [Jobs -> "-","item","buffered","streaming"]
    asm_pc,             \* [Jobs -> "idle","transcoding","delivering","response","streaming","done"]
    asm_transcodes,     \* [Jobs -> number of _download_with_ffmpeg calls of the assembly]
    asm_outcome         \* [Jobs -> how the call ended: "-","bytes","None","raised_drm","raised","response"]

avars == <<stream_pc, stream_returncode, stream_sent, asm_kind, asm_pc, asm_transcodes,
           asm_outcome>>

VARIABLES
    \* ---- SoundCloudClient and its environment
    environ,            \* SOUNDCLOUD_CLIENT_ID of the process ("" when unset)
    client_id,          \* self.client_id, the cached token ("" for None)
    \* ---- one call of SoundCloudClient.resolve(url)
    resolve_pc,         \* "idle","get_token","get_token_again","request","refresh","returned","failed"
    attempt,            \* the loop variable of `for attempt in range(max_retries)`
    params_client_id,   \* params["client_id"]
    responses,          \* the answers of the resolve endpoint to this call, in order
    refreshes,          \* forced refreshes made by the 401 handler of this call
    client_id_at_request, \* the cached token when the last request was sent
    resolve_error       \* how the call failed ("" while it has not)

rvars == <<environ, client_id, resolve_pc, attempt, params_client_id,
           responses, refreshes, client_id_at_request, resolve_error>>

VARIABLES
    \* ---- the last call of SoundCloudClient.get_client_id
    gc_call             \* [force_refresh, before, extracted, valid, ok, token, tested, probed]

gvars == <<gc_call>>

VARIABLES
    \* ---- one call of SoundCloudClient.get_stream_url(track_data)
    loc_pc,             \* "idle","loop","done"
    transcodings,       \* media.transcodings of the track: a sequence of descriptors
    track_id,           \* BOOLEAN: the track record carries an id
    non_drm_transcodings, \* the list of that name: positions in transcodings
    drm_transcodings,   \* the list of that name: positions in transcodings
    to_try,             \* which of the two lists transcodings_to_try is: "non_drm", "drm"
    loop_i,             \* position of the list iterator of `for hls_transcoding in transcodings_to_try`
    last_error,         \* "" (None), "drm" (the DRM-protected exception), "other"
    fetched,            \* positions of the descriptors whose signed URL was fetched, in order
    rejected,           \* positions of the descriptors whose manifest URL had the marker, in order
    loc_result          \* [kind, url, via] of the call

lvars == <<loc_pc, transcodings, track_id, non_drm_transcodings,
           drm_transcodings, to_try, loop_i, last_error, fetched, rejected,
           loc_result>>

VARIABLES
    \* ---- one call of SoundCloudClient._format_playlist_info(data)
    info_pc,            \* "idle","loop","done"
    tracks,             \* data["tracks"]: a sequence of [id, title, artist] ("" for a missing value)
    batch_failed,       \* BOOLEAN: _get_tracks_by_ids returned {} after an error
    track_list,         \* the list of that name: [title, artist, id, source]
    info_result         \* "-", "returned", "raised"

ivars == <<info_pc, tracks, batch_failed, track_list, info_result>>

VARIABLES
    \* ---- the transcodes of the item tasks (both gates together)
    task_transcodes     \* [Tasks -> number of _download_with_ffmpeg calls of the task]

xvars == <<task_transcodes>>

VARIABLES
    \* ---- concurrent resolve calls on one client (the cache is client_id)
    c_pc,               \* [Callers -> "idle","probing","request","returned","failed"]
    c_stage,            \* [Callers -> the get_client_id call in progress: "initial","again","refresh"]
    c_attempt,          \* [Callers -> the loop variable attempt of the caller's resolve]
    c_left,             \* [Callers -> the candidates get_client_id has still to probe]
    validated           \* the tokens on which _test_client_id has returned True

cvars == <<c_pc, c_stage, c_attempt, c_left, validated>>

VARIABLES
    \* ---- one call of SoundCloudClient._get_tracks_by_ids
    batch_pc,           \* "idle","token","request","returned","raised"
    track_ids,          \* the argument track_ids (a sequence of ids)
    batch_i,            \* the loop variable i of range(0, len(track_ids), BATCH_SIZE)
    all_tracks,         \* the keys of the dict all_tracks
    batch_sent,         \* the batches requested so far, in order
    batch_found,        \* the ids of the entries in the answers received without an error
    batch_error,        \* BOOLEAN: a chunk request failed
    batch_return        \* the keys of the mapping returned

bvars == <<batch_pc, track_ids, batch_i, all_tracks, batch_sent, batch_found,
           batch_error, batch_return>>

\* the variables of single calls of the client, of the tasks' transcodes,
\* of the concurrent callers and of the batch lookup
qvars == <<gvars, lvars, ivars, xvars, cvars, bvars>>

vars == <<pvars, tvars, rvars, avars, qvars>>

(***************************************************************************)
(* Item assembly: _download_track_to_memory and download_and_add_track.    *)
(***************************************************************************)
\* What one item's assembly can meet (the answers of its collaborators):
\*   ok               every step succeeds
\*   no_id            the track record carries no id
\*   locate_error     get_stream_url raises (NoPlayableStream, resolve error)
\*   drm_url          get_stream_url returns a manifest URL with the marker
\*   drm_error        _download_with_ffmpeg raises the DRM-specific error
\*   transcode_error  _download_with_ffmpeg raises another error
\*   undersized       _download_with_ffmpeg returns False twice
\*   tag_error        add_metadata_to_mp3 raises
Fates == {"ok", "no_id", "locate_error", "drm_url", "drm_error",
          "transcode_error", "undersized", "tag_error"}

\* the fates in which the item is DRM-protected
DrmFates == {"drm_url", "drm_error"}

\* what the state keeps of a finished item's fate: it succeeded, it was
\* DRM-protected, or it failed otherwise
FateClass(f) ==
    IF f = "ok" THEN "ok" ELSE IF f \in DrmFates THEN "drm" ELSE "failed"

\* _download_track_to_memory: "bytes" (the track's bytes), "none" (return
\* None) or "raise" (an exception leaves the function)
DownloadTrackToMemory(f) ==
    CASE f = "no_id" -> "none"
      [] f = "locate_error" -> "none"
      [] f = "drm_url" -> "none"
      [] f = "drm_error" -> "raise"
      [] f = "transcode_error" -> "raise"
      [] f = "undersized" -> "none"
      [] f = "tag_error" -> "raise"
      [] OTHER -> "bytes"

\* download_and_add_track, mutated: the handler lets the exception through
DownloadAndAddTrackUncaught(idx, f) ==
    LET got == DownloadTrackToMemory(f) IN
    [value |-> IF got = "bytes" THEN <<idx>> ELSE None,
     raised |-> got = "raise"]

\* download_and_add_track: the task's result and whether it raised
DownloadAndAddTrack(idx, f) ==
    LET got == DownloadTrackToMemory(f) IN
    [value |-> IF got = "bytes" THEN <<idx>> ELSE None,
     raised |-> FALSE]

(***************************************************************************)
(* The download admission gate (asyncio.Semaphore: FIFO waiters).          *)
(***************************************************************************)
\* Acquire, mutated: the permit is taken without waiting for one to be free
AcquireWithoutWaiting(t) ==
    /\ download_waiters # <<>>
    /\ Head(download_waiters) = t
    /\ task_pc[t] = "waiting"
    /\ download_semaphore' = download_semaphore - 1
    /\ download_waiters' = Tail(download_waiters)
    /\ task_pc' = [task_pc EXCEPT ![t] = "running"]
    /\ UNCHANGED <<total_tracks, fate, result, task_raised, gen_pc, done_queue,
                   taken, completed_tracks, next_expected_idx, tracks_added,
                   last_zip_size, zip_lock, zip_path, zip_exists, emitted>>
    /\ UNCHANGED <<tvars, rvars, avars, qvars>>

\* async with self.download_semaphore: a task that finds no permit waits;
\* asyncio.Semaphore wakes its waiters first come, first served, and the
\* tasks of a request are created, and so reach the gate, in index order.
\* The task at the head of the waiters takes a permit when one is free
Acquire(t) ==
    /\ download_waiters # <<>>
    /\ Head(download_waiters) = t
    /\ task_pc[t] = "waiting"
    /\ download_semaphore > 0
    /\ download_semaphore' = download_semaphore - 1
    /\ download_waiters' = Tail(download_waiters)
    /\ task_pc' = [task_pc EXCEPT ![t] = "running"]
    /\ UNCHANGED <<total_tracks, fate, result, task_raised, gen_pc, done_queue,
                   taken, completed_tracks, next_expected_idx, tracks_added,
                   last_zip_size, zip_lock, zip_path, zip_exists, emitted>>
    /\ UNCHANGED <<tvars, rvars, avars, qvars>>

\* FinishTask, mutated: the permit is given back only when the item
\* succeeded
FinishTaskLeaksOnFailure(t, f) ==
    /\ task_pc[t] = "running"
    /\ LET out == DownloadAndAddTrack(t[2], f) IN
        /\ fate' = [fate EXCEPT ![t] = FateClass(f)]
        /\ result' = [result EXCEPT ![t] = out.value]
        /\ task_raised' = [task_raised EXCEPT ![t] = out.raised]
        /\ download_semaphore' =
              IF out.value = None THEN download_semaphore
              ELSE download_semaphore + 1
    /\ task_pc' = [task_pc EXCEPT ![t] = "done"]
    /\ done_queue' = [done_queue EXCEPT ![t[1]] = Append(@, t[2])]
    /\ UNCHANGED <<total_tracks, download_waiters, gen_pc, taken,
                   completed_tracks, next_expected_idx, tracks_added,
                   last_zip_size, zip_lock, zip_path, zip_exists, emitted>>
    /\ UNCHANGED <<tvars, rvars, avars, qvars>>

\* the body of download_and_add_track under the permit, and the release of
\* the permit when the async with block is left
FinishTask(t, f) ==
    /\ task_pc[t] = "running"
    /\ LET out == DownloadAndAddTrack(t[2], f) IN
        /\ fate' = [fate EXCEPT ![t] = FateClass(f)]
        /\ result' = [result EXCEPT ![t] = out.value]
        /\ task_raised' = [task_raised EXCEPT ![t] = out.raised]
    /\ task_pc' = [task_pc EXCEPT ![t] = "done"]
    /\ download_semaphore' = download_semaphore + 1
    /\ done_queue' = [done_queue EXCEPT ![t[1]] = Append(@, t[2])]
    /\ UNCHANGED <<total_tracks, download_waiters, gen_pc, taken,
                   completed_tracks, next_expected_idx, tracks_added,
                   last_zip_size, zip_lock, zip_path, zip_exists, emitted>>
    /\ UNCHANGED <<tvars, rvars, avars, qvars>>

(***************************************************************************)
(* The transcode gate as the item tasks meet it: a task that holds a       *)
(* permit of the download gate calls _download_with_ffmpeg, at most twice  *)
(* (_download_track_to_memory repeats an undersized transcode once).       *)
(***************************************************************************)
\* _download_with_ffmpeg is called by the running task t: it waits for the
\* transcode gate, still holding its permit of the download gate
TaskCallsFfmpeg(t) ==
    /\ task_pc[t] = "running"
    /\ task_transcodes[t] < 2
    /\ task_transcodes' = [task_transcodes EXCEPT ![t] = @ + 1]
    /\ task_pc' = [task_pc EXCEPT ![t] = "ffmpeg_waiting"]
    /\ ffmpeg_waiters' = Append(ffmpeg_waiters, t)
    /\ UNCHANGED <<total_tracks, download_semaphore, download_waiters, fate,
                   result, task_raised, gen_pc, done_queue, taken,
                   completed_tracks, next_expected_idx, tracks_added,
                   last_zip_size, zip_lock, zip_path, zip_exists, emitted>>
    /\ UNCHANGED <<ffmpeg_semaphore, job_pc, m3u8_url, output_path, temp_m3u8,
                   returncode, drm_error, retry_drm_error, encoder_runs, encoder_total,
                   job_result>>
    /\ UNCHANGED <<rvars, avars, gvars, lvars, ivars, cvars, bvars>>

\* async with self.ffmpeg_semaphore: the task at the head of the waiters
\* takes a permit when one is free
TaskEntersFfmpeg(t) ==
    /\ ffmpeg_waiters # <<>>
    /\ Head(ffmpeg_waiters) = t
    /\ task_pc[t] = "ffmpeg_waiting"
    /\ ffmpeg_semaphore > 0
    /\ ffmpeg_semaphore' = ffmpeg_semaphore - 1
    /\ ffmpeg_waiters' = Tail(ffmpeg_waiters)
    /\ task_pc' = [task_pc EXCEPT ![t] = "encoding"]
    /\ UNCHANGED <<total_tracks, download_semaphore, download_waiters, fate,
                   result, task_raised, gen_pc, done_queue, taken,
                   completed_tracks, next_expected_idx, tracks_added,
                   last_zip_size, zip_lock, zip_path, zip_exists, emitted>>
    /\ UNCHANGED <<job_pc, m3u8_url, output_path, temp_m3u8, returncode,
                   drm_error, retry_drm_error, encoder_runs, encoder_total, job_result>>
    /\ UNCHANGED <<rvars, avars, qvars>>

\* TaskLeavesFfmpeg, mutated: the permit of the transcode gate is kept
TaskLeavesFfmpegKeepsPermit(t) ==
    /\ task_pc[t] = "encoding"
    /\ task_pc' = [task_pc EXCEPT ![t] = "running"]
    /\ UNCHANGED <<total_tracks, download_semaphore, download_waiters, fate,
                   result, task_raised, gen_pc, done_queue, taken,
                   completed_tracks, next_expected_idx, tracks_added,
                   last_zip_size, zip_lock, zip_path, zip_exists, emitted>>
    /\ UNCHANGED <<tvars, rvars, avars, qvars>>

\* the async with block of _download_with_ffmpeg is left (return or
\* exception, after the encoder runs of the job): the permit is given back
\* and the task goes on under its permit of the download gate
TaskLeavesFfmpeg(t) ==
    /\ task_pc[t] = "encoding"
    /\ ffmpeg_semaphore' = ffmpeg_semaphore + 1
    /\ task_pc' = [task_pc EXCEPT ![t] = "running"]
    /\ UNCHANGED <<total_tracks, download_semaphore, download_waiters, fate,
                   result, task_raised, gen_pc, done_queue, taken,
                   completed_tracks, next_expected_idx, tracks_added,
                   last_zip_size, zip_lock, zip_path, zip_exists, emitted>>
    /\ UNCHANGED <<ffmpeg_waiters, job_pc, m3u8_url, output_path, temp_m3u8,
                   returncode, drm_error, retry_drm_error, encoder_runs, encoder_total,
                   job_result>>
    /\ UNCHANGED <<rvars, avars, qvars>>

\* what becomes of an item after n transcodes: without any, the locate
\* step failed; after one, the output was valid; after two, both outputs
\* were undersized
TaskFate(n) ==
    IF n = 0 THEN "locate_error" ELSE IF n = 1 THEN "ok" ELSE "undersized"

\* the task leaves _download_track_to_memory and the download gate
TaskReturns(t) == FinishTask(t, TaskFate(task_transcodes[t]))

\* _download_with_ffmpeg has raised (the DRM-specific error or "FFmpeg
\* conversion failed", after its async with block was left): the exception
\* passes through _download_track_to_memory and is caught by the handler of
\* download_and_add_track inside the download gate's block, which is left
\* by the return
TaskRaises(t) ==
    /\ task_transcodes[t] >= 1
    /\ FinishTask(t, "transcode_error")

(***************************************************************************)
(* The generator _stream_playlist_zip.                                     *)
(***************************************************************************)
RECURSIVE TaskSeq(_, _, _)
\* the tasks of request r with indices i..n-1, in creation order
TaskSeq(r, i, n) == IF i >= n THEN <<>> ELSE <<<<r, i>>>> \o TaskSeq(r, i + 1, n)

\* first call of the generator: the temporary archive file is created, the
\* ZipFile opened and one task per track created; the generator then waits
\* for the first completed task
Start(r) ==
    /\ gen_pc[r] = "idle"
    /\ total_tracks[r] > 0
    /\ zip_path' = [zip_path EXCEPT ![r] = <<>>]
    /\ zip_exists' = [zip_exists EXCEPT ![r] = TRUE]
    /\ task_pc' = [t \in Tasks |->
                     IF t[1] = r /\ t[2] < total_tracks[r] THEN "waiting"
                     ELSE task_pc[t]]
    /\ download_waiters' = download_waiters \o TaskSeq(r, 0, total_tracks[r])
    /\ gen_pc' = [gen_pc EXCEPT ![r] = "await"]
    /\ UNCHANGED <<total_tracks, download_semaphore, fate, result, task_raised,
                   done_queue, taken, completed_tracks, next_expected_idx,
                   tracks_added, last_zip_size, zip_lock, emitted>>
    /\ UNCHANGED <<tvars, rvars, avars, qvars>>

\* the drain loop from its test to the next suspension, mutated: the entry
\* written stays in completed_tracks
DrainKeepsHeld(r, held, nxt, last) ==
    IF nxt \in held
    THEN LET file == Append(zip_path[r], nxt) IN
         /\ completed_tracks' = [completed_tracks EXCEPT ![r] = held]
         /\ zip_lock' = [zip_lock EXCEPT ![r] = TRUE]
         /\ zip_path' = [zip_path EXCEPT ![r] = file]
         /\ tracks_added' = [tracks_added EXCEPT ![r] = @ + 1]
         /\ emitted' = [emitted EXCEPT ![r] =
                IF Len(file) > last
                THEN Append(@, SubSeq(file, last + 1, Len(file)))
                ELSE @]
         /\ gen_pc' = [gen_pc EXCEPT ![r] = "yield_entry"]
    ELSE /\ completed_tracks' = [completed_tracks EXCEPT ![r] = held]
         /\ gen_pc' = [gen_pc EXCEPT ![r] = "await"]
         /\ UNCHANGED <<zip_lock, zip_path, tracks_added, emitted>>

\* the drain loop from its test to the next suspension, mutated: an entry is
\* written as soon as any index is held, lowest first
DrainAnyHeld(r, held, nxt, last) ==
    IF held # {}
    THEN LET i == CHOOSE x \in held : \A y \in held : x <= y
             file == Append(zip_path[r], i) IN
         /\ completed_tracks' = [completed_tracks EXCEPT ![r] = held \ {i}]
         /\ zip_lock' = [zip_lock EXCEPT ![r] = TRUE]
         /\ zip_path' = [zip_path EXCEPT ![r] = file]
         /\ tracks_added' = [tracks_added EXCEPT ![r] = @ + 1]
         /\ emitted' = [emitted EXCEPT ![r] =
                IF Len(file) > last
                THEN Append(@, SubSeq(file, last + 1, Len(file)))
                ELSE @]
         /\ gen_pc' = [gen_pc EXCEPT ![r] = "yield_entry"]
    ELSE /\ completed_tracks' = [completed_tracks EXCEPT ![r] = held]
         /\ gen_pc' = [gen_pc EXCEPT ![r] = "await"]
         /\ UNCHANGED <<zip_lock, zip_path, tracks_added, emitted>>

\* the drain loop from its test to the next suspension: while the next
\* expected index nxt is held, pop it, take zip_lock, writestr, count, flush
\* and yield the bytes after last_zip_size (last; the generator is suspended
\* in the yield, inside the lock); otherwise back to the as_completed loop
Drain(r, held, nxt, last) ==
    IF nxt \in held
    THEN LET file == Append(zip_path[r], nxt) IN
         /\ completed_tracks' = [completed_tracks EXCEPT ![r] = held \ {nxt}]
         /\ zip_lock' = [zip_lock EXCEPT ![r] = TRUE]
         /\ zip_path' = [zip_path EXCEPT ![r] = file]
         /\ tracks_added' = [tracks_added EXCEPT ![r] = @ + 1]
         /\ emitted' = [emitted EXCEPT ![r] =
                IF Len(file) > last
                THEN Append(@, SubSeq(file, last + 1, Len(file)))
                ELSE @]
         /\ gen_pc' = [gen_pc EXCEPT ![r] = "yield_entry"]
    ELSE /\ completed_tracks' = [completed_tracks EXCEPT ![r] = held]
         /\ gen_pc' = [gen_pc EXCEPT ![r] = "await"]
         /\ UNCHANGED <<zip_lock, zip_path, tracks_added, emitted>>

\* one iteration of `for task in asyncio.as_completed(download_tasks)`:
\* result = await task; a result is stored in completed_tracks by its index,
\* a None result and a raised task store nothing; then the drain loop
TakeCompleted(r) ==
    /\ gen_pc[r] = "await"
    /\ taken[r] < total_tracks[r]
    /\ Len(done_queue[r]) > taken[r]
    /\ LET t == <<r, done_queue[r][taken[r] + 1]>>
           held == IF ~task_raised[t] /\ result[t] # None
                   THEN completed_tracks[r] \cup {result[t][1]}
                   ELSE completed_tracks[r] IN
        /\ taken' = [taken EXCEPT ![r] = @ + 1]
        /\ IF ~task_raised[t] /\ result[t] # None
           THEN /\ Drain(r, held, next_expected_idx[r], last_zip_size[r])
                /\ UNCHANGED <<last_zip_size, next_expected_idx>>
           ELSE /\ UNCHANGED <<completed_tracks, zip_lock, zip_path,
                               tracks_added, emitted, gen_pc, last_zip_size,
                               next_expected_idx>>
    /\ UNCHANGED <<total_tracks, download_semaphore, download_waiters, task_pc,
                   fate, result, task_raised, done_queue, zip_exists>>
    /\ UNCHANGED <<tvars, rvars, avars, qvars>>

\* ResumeAfterEntry, mutated: zip_lock is not released when the drain
\* loop is left
ResumeAfterEntryKeepsLock(r) ==
    /\ gen_pc[r] = "yield_entry"
    /\ last_zip_size' = [last_zip_size EXCEPT ![r] = Len(zip_path[r])]
    /\ next_expected_idx' = [next_expected_idx EXCEPT ![r] = @ + 1]
    /\ IF next_expected_idx[r] + 1 \in completed_tracks[r]
       THEN Drain(r, completed_tracks[r], next_expected_idx[r] + 1,
                  Len(zip_path[r]))
       ELSE /\ gen_pc' = [gen_pc EXCEPT ![r] = "await"]
            /\ UNCHANGED <<zip_lock, completed_tracks, zip_path, tracks_added,
                           emitted>>
    /\ UNCHANGED <<total_tracks, download_semaphore, download_waiters, task_pc,
                   fate, result, task_raised, done_queue, taken,
                   zip_exists>>
    /\ UNCHANGED <<tvars, rvars, avars, qvars>>

\* ResumeAfterEntry, mutated: last_zip_size is not advanced
ResumeAfterEntryKeepsOffset(r) ==
    /\ gen_pc[r] = "yield_entry"
    /\ next_expected_idx' = [next_expected_idx EXCEPT ![r] = @ + 1]
    /\ IF next_expected_idx[r] + 1 \in completed_tracks[r]
       THEN Drain(r, completed_tracks[r], next_expected_idx[r] + 1,
                  last_zip_size[r])
       ELSE /\ zip_lock' = [zip_lock EXCEPT ![r] = FALSE]
            /\ gen_pc' = [gen_pc EXCEPT ![r] = "await"]
            /\ UNCHANGED <<completed_tracks, zip_path, tracks_added, emitted>>
    /\ UNCHANGED <<total_tracks, download_semaphore, download_waiters, task_pc,
                   fate, result, task_raised, done_queue, taken,
                   zip_exists, last_zip_size>>
    /\ UNCHANGED <<tvars, rvars, avars, qvars>>

\* the generator is resumed after yielding an entry's bytes: last_zip_size
\* is advanced, zip_lock released, next_expected_idx incremented (and the
\* pacing sleep taken every MAX_CONCURRENT_DOWNLOADS entries), then the
\* drain loop goes on
ResumeAfterEntry(r) ==
    /\ gen_pc[r] = "yield_entry"
    /\ last_zip_size' = [last_zip_size EXCEPT ![r] = Len(zip_path[r])]
    /\ next_expected_idx' = [next_expected_idx EXCEPT ![r] = @ + 1]
    /\ IF next_expected_idx[r] + 1 \in completed_tracks[r]
       THEN Drain(r, completed_tracks[r], next_expected_idx[r] + 1,
                  Len(zip_path[r]))
       ELSE /\ zip_lock' = [zip_lock EXCEPT ![r] = FALSE]
            /\ gen_pc' = [gen_pc EXCEPT ![r] = "await"]
            /\ UNCHANGED <<completed_tracks, zip_path, tracks_added, emitted>>
    /\ UNCHANGED <<total_tracks, download_semaphore, download_waiters, task_pc,
                   fate, result, task_raised, done_queue, taken,
                   zip_exists>>
    /\ UNCHANGED <<tvars, rvars, avars, qvars>>

\* the as_completed loop is exhausted: the ZipFile context closes (the
\* central directory is written) and the bytes after last_zip_size are
\* yielded as the final chunk
FinalFlush(r) ==
    /\ gen_pc[r] = "await"
    /\ taken[r] = total_tracks[r]
    /\ LET file == Append(zip_path[r], CentralDirectory) IN
        /\ zip_path' = [zip_path EXCEPT ![r] = file]
        /\ emitted' = [emitted EXCEPT ![r] =
                IF Len(file) > last_zip_size[r]
                THEN Append(@, SubSeq(file, last_zip_size[r] + 1, Len(file)))
                ELSE @]
    /\ gen_pc' = [gen_pc EXCEPT ![r] = "yield_final"]
    /\ UNCHANGED <<total_tracks, download_semaphore, download_waiters, task_pc,
                   fate, result, task_raised, done_queue, taken,
                   completed_tracks, next_expected_idx, tracks_added,
                   last_zip_size, zip_lock, zip_exists>>
    /\ UNCHANGED <<tvars, rvars, avars, qvars>>

\* Conclude, mutated: tracks_added is not looked at
ConcludeWithoutCount(r) ==
    /\ gen_pc[r] = "yield_final"
    /\ gen_pc' = [gen_pc EXCEPT ![r] = "ended"]
    /\ zip_exists' = [zip_exists EXCEPT ![r] = FALSE]
    /\ UNCHANGED <<total_tracks, download_semaphore, download_waiters, task_pc,
                   fate, result, task_raised, done_queue, taken,
                   completed_tracks, next_expected_idx, tracks_added,
                   last_zip_size, zip_lock, emitted, zip_path>>
    /\ UNCHANGED <<tvars, rvars, avars, qvars>>

\* Conclude, mutated: the backing file is not unlinked
ConcludeWithoutUnlink(r) ==
    /\ gen_pc[r] = "yield_final"
    /\ gen_pc' = [gen_pc EXCEPT ![r] =
                    IF tracks_added[r] = 0 THEN "failed" ELSE "ended"]
    /\ UNCHANGED <<total_tracks, download_semaphore, download_waiters, task_pc,
                   fate, result, task_raised, done_queue, taken,
                   completed_tracks, next_expected_idx, tracks_added,
                   last_zip_size, zip_lock, emitted, zip_path, zip_exists>>
    /\ UNCHANGED <<tvars, rvars, avars, qvars>>

\* the generator is resumed after the final chunk: "No tracks were
\* successfully downloaded" is raised when tracks_added is 0, and the
\* finally clause unlinks the backing file
Conclude(r) ==
    /\ gen_pc[r] = "yield_final"
    /\ gen_pc' = [gen_pc EXCEPT ![r] =
                    IF tracks_added[r] = 0 THEN "failed" ELSE "ended"]
    /\ zip_exists' = [zip_exists EXCEPT ![r] = FALSE]
    /\ UNCHANGED <<total_tracks, download_semaphore, download_waiters, task_pc,
                   fate, result, task_raised, done_queue, taken,
                   completed_tracks, next_expected_idx, tracks_added,
                   last_zip_size, zip_lock, emitted, zip_path>>
    /\ UNCHANGED <<tvars, rvars, avars, qvars>>

\* the consumer stops iterating before the chunk sequence has ended (the
\* generator is closed at a yield, or the request is cancelled while the
\* generator awaits a task): the ZipFile context and zip_lock are left and
\* the finally clause unlinks the backing file. The tasks are not cancelled
Aclose(r) ==
    /\ gen_pc[r] \in {"await", "yield_entry", "yield_final"}
    /\ gen_pc' = [gen_pc EXCEPT ![r] = "closed"]
    /\ zip_lock' = [zip_lock EXCEPT ![r] = FALSE]
    /\ zip_exists' = [zip_exists EXCEPT ![r] = FALSE]
    /\ UNCHANGED <<total_tracks, download_semaphore, download_waiters, task_pc,
                   fate, result, task_raised, done_queue, taken,
                   completed_tracks, next_expected_idx, tracks_added,
                   last_zip_size, emitted, zip_path>>
    /\ UNCHANGED <<tvars, rvars, avars, qvars>>

(***************************************************************************)
(* DRM detection (utils/drm_detection.py) and file checks                  *)
(* (utils/file_utils.py). A text (URL, stderr, manifest body) is modelled  *)
(* by the set of the lower-cased marker substrings it contains.            *)
(***************************************************************************)
\* is_drm_protected_url
IsDrmProtectedUrl(url) == "cenc" \in url \/ "/cenc/" \in url

\* check_drm_in_content: TRUE when an error message is returned
CheckDrmInContent(content) ==
    \/ "cenc" \in content \/ "/cenc/" \in content
    \/ ("not on whitelist" \in content /\ "https" \in content)
    \/ ("data:text" \in content /\ "wrmheader" \in content)

\* validate_file_size, mutated: only the existence of the file is checked
ValidateFileExists(file, min_size) == file.exists

\* validate_file_size
ValidateFileSize(file, min_size) ==
    IF ~file.exists THEN FALSE ELSE file.size >= min_size

\* the manifest URLs a job is called with
Urls == {{"https"}, {"cenc", "https"}, {"cenc", "/cenc/", "https"}}

\* the texts an encoder writes to stderr and the manifest bodies upstream
\* serves
Contents == {{}, {"https"}, {"cenc"}, {"not on whitelist", "https"},
             {"data:text", "wrmheader"}}

\* the sizes an encoder leaves the output file with
Sizes == {100, MIN_FILE_SIZE - 1, MIN_FILE_SIZE}

\* what one encoder process does: its exit code, its stderr, and the output
\* file it leaves (wrote: it created or overwrote the file, with that size)
EncoderRuns ==
    [returncode : {0, 1}, stderr : Contents, wrote : {TRUE}, size : Sizes]
    \cup [returncode : {0, 1}, stderr : Contents, wrote : {FALSE}, size : {100}]

\* the answers to the manual fetch of the manifest: a status code, or 0
\* for a transport error
FetchStatuses == {200, 403, 0}

(***************************************************************************)
(* The transcode job _download_with_ffmpeg with _retry_with_headers, under *)
(* the transcode gate.                                                     *)
(***************************************************************************)
\* the output file after an encoder process has run on it
FileAfter(file, run) ==
    IF run.wrote THEN [exists |-> TRUE, size |-> run.size] ELSE file

\* _download_with_ffmpeg(m3u8_url, output_path) is called: the job waits
\* for the transcode gate; its locals are fresh
CallDownloadWithFfmpeg(j, url, file) ==
    /\ job_pc' = [job_pc EXCEPT ![j] = "waiting"]
    /\ m3u8_url' = [m3u8_url EXCEPT ![j] = url]
    /\ output_path' = [output_path EXCEPT ![j] = file]
    /\ ffmpeg_waiters' = Append(ffmpeg_waiters, j)
    /\ returncode' = [returncode EXCEPT ![j] = 0]
    /\ drm_error' = [drm_error EXCEPT ![j] = FALSE]
    /\ retry_drm_error' = [retry_drm_error EXCEPT ![j] = FALSE]
    /\ encoder_runs' = [encoder_runs EXCEPT ![j] = 0]
    /\ job_result' = [job_result EXCEPT ![j] = "-"]
    /\ UNCHANGED <<ffmpeg_semaphore, temp_m3u8, encoder_total>>

\* a call of _download_with_ffmpeg by some caller. The output file was
\* created empty by the caller, or has been unlinked before the
\* collection's second job
StartJob(j, url, exists) ==
    /\ job_pc[j] = "idle"
    /\ CallDownloadWithFfmpeg(j, url, [exists |-> exists, size |-> 0])
    /\ UNCHANGED <<pvars, rvars, avars, qvars>>

\* async with self.ffmpeg_semaphore: the job at the head of the waiters
\* takes a permit; a manifest URL with the marker raises at once (the
\* permit is given back), otherwise the encoder process is started
EnterFfmpeg(j) ==
    /\ ffmpeg_waiters # <<>>
    /\ Head(ffmpeg_waiters) = j
    /\ job_pc[j] = "waiting"
    /\ ffmpeg_semaphore > 0
    /\ ffmpeg_waiters' = Tail(ffmpeg_waiters)
    /\ IF IsDrmProtectedUrl(m3u8_url[j])
       THEN /\ job_pc' = [job_pc EXCEPT ![j] = "done"]
            /\ job_result' = [job_result EXCEPT ![j] = "drm_error"]
            /\ UNCHANGED <<ffmpeg_semaphore, encoder_runs, encoder_total>>
       ELSE /\ job_pc' = [job_pc EXCEPT ![j] = "encoding"]
            /\ ffmpeg_semaphore' = ffmpeg_semaphore - 1
            /\ encoder_runs' = [encoder_runs EXCEPT ![j] = 1]
            /\ encoder_total' = [encoder_total EXCEPT ![j] = @ + 1]
            /\ UNCHANGED job_result
    /\ UNCHANGED <<m3u8_url, output_path, temp_m3u8, returncode, drm_error,
                   retry_drm_error>>
    /\ UNCHANGED <<pvars, rvars, avars, qvars>>

\* FirstEncoderExits, mutated: the exit code is looked at before stderr is
\* scanned
FirstEncoderExitsCodeFirst(j, run) ==
    /\ job_pc[j] = "encoding"
    /\ returncode' = [returncode EXCEPT ![j] = run.returncode]
    /\ drm_error' = [drm_error EXCEPT ![j] = CheckDrmInContent(run.stderr)]
    /\ output_path' = [output_path EXCEPT ![j] = FileAfter(@, run)]
    /\ IF run.returncode # 0
       THEN /\ job_pc' = [job_pc EXCEPT ![j] = "fetching"]
            /\ UNCHANGED <<job_result, ffmpeg_semaphore>>
       ELSE IF CheckDrmInContent(run.stderr)
       THEN /\ job_pc' = [job_pc EXCEPT ![j] = "done"]
            /\ job_result' = [job_result EXCEPT ![j] = "drm_error"]
            /\ ffmpeg_semaphore' = ffmpeg_semaphore + 1
       ELSE /\ job_pc' = [job_pc EXCEPT ![j] = "done"]
            /\ job_result' = [job_result EXCEPT ![j] =
                  IF ValidateFileSize(FileAfter(output_path[j], run), MIN_FILE_SIZE)
                  THEN "True" ELSE "False"]
            /\ ffmpeg_semaphore' = ffmpeg_semaphore + 1
    /\ UNCHANGED <<ffmpeg_waiters, m3u8_url, temp_m3u8, encoder_runs, encoder_total,
                   retry_drm_error>>
    /\ UNCHANGED <<pvars, rvars, avars, qvars>>

\* process.communicate() of the first encoder returns: a DRM indicator in
\* stderr raises the DRM error whatever the exit code; a non-zero exit
\* code starts _retry_with_headers (the manifest is fetched); otherwise
\* the output file is validated and the job returns
FirstEncoderExits(j, run) ==
    /\ job_pc[j] = "encoding"
    /\ returncode' = [returncode EXCEPT ![j] = run.returncode]
    /\ drm_error' = [drm_error EXCEPT ![j] = CheckDrmInContent(run.stderr)]
    /\ output_path' = [output_path EXCEPT ![j] = FileAfter(@, run)]
    /\ IF CheckDrmInContent(run.stderr)
       THEN /\ job_pc' = [job_pc EXCEPT ![j] = "done"]
            /\ job_result' = [job_result EXCEPT ![j] = "drm_error"]
            /\ ffmpeg_semaphore' = ffmpeg_semaphore + 1
       ELSE IF run.returncode # 0
       THEN /\ job_pc' = [job_pc EXCEPT ![j] = "fetching"]
            /\ UNCHANGED <<job_result, ffmpeg_semaphore>>
       ELSE /\ job_pc' = [job_pc EXCEPT ![j] = "done"]
            /\ job_result' = [job_result EXCEPT ![j] =
                  IF ValidateFileSize(FileAfter(output_path[j], run), MIN_FILE_SIZE)
                  THEN "True" ELSE "False"]
            /\ ffmpeg_semaphore' = ffmpeg_semaphore + 1
    /\ UNCHANGED <<ffmpeg_waiters, m3u8_url, temp_m3u8, encoder_runs, encoder_total,
                   retry_drm_error>>
    /\ UNCHANGED <<pvars, rvars, avars, qvars>>

\* _retry_with_headers gets the answer to its fetch of the manifest: a
\* status other than 200, a transport error, or a DRM indicator in the body
\* (raised and caught in _retry_with_headers) make it return False, and the
\* job raises "FFmpeg conversion failed"; otherwise the body is saved to a
\* temporary file and the second encoder process is started on it
ManifestFetched(j, status, content) ==
    /\ job_pc[j] = "fetching"
    /\ retry_drm_error' = [retry_drm_error EXCEPT ![j] =
          status = 200 /\ CheckDrmInContent(content)]
    /\ IF status # 200 \/ CheckDrmInContent(content)
       THEN /\ job_pc' = [job_pc EXCEPT ![j] = "done"]
            /\ job_result' = [job_result EXCEPT ![j] = "error"]
            /\ ffmpeg_semaphore' = ffmpeg_semaphore + 1
            /\ UNCHANGED <<temp_m3u8, encoder_runs, encoder_total>>
       ELSE /\ job_pc' = [job_pc EXCEPT ![j] = "encoding_retry"]
            /\ temp_m3u8' = [temp_m3u8 EXCEPT ![j] = TRUE]
            /\ encoder_runs' = [encoder_runs EXCEPT ![j] = @ + 1]
            /\ encoder_total' = [encoder_total EXCEPT ![j] = @ + 1]
            /\ UNCHANGED <<job_result, ffmpeg_semaphore>>
    /\ UNCHANGED <<ffmpeg_waiters, m3u8_url, output_path, returncode, drm_error>>
    /\ UNCHANGED <<pvars, rvars, avars, qvars>>

\* SecondEncoderExits, mutated: a failure of the second encoder fetches the
\* manifest and runs the encoder once more
SecondEncoderExitsRetriesAgain(j, run) ==
    /\ job_pc[j] = "encoding_retry"
    /\ returncode' = [returncode EXCEPT ![j] = run.returncode]
    /\ retry_drm_error' = [retry_drm_error EXCEPT ![j] = CheckDrmInContent(run.stderr)]
    /\ output_path' = [output_path EXCEPT ![j] = FileAfter(@, run)]
    /\ temp_m3u8' = [temp_m3u8 EXCEPT ![j] = FALSE]
    /\ IF CheckDrmInContent(run.stderr) \/ run.returncode # 0
       THEN /\ job_pc' = [job_pc EXCEPT ![j] = "fetching"]
            /\ UNCHANGED <<job_result, ffmpeg_semaphore>>
       ELSE /\ job_pc' = [job_pc EXCEPT ![j] = "done"]
            /\ job_result' = [job_result EXCEPT ![j] =
                  IF ValidateFileSize(FileAfter(output_path[j], run), MIN_FILE_SIZE)
                  THEN "True" ELSE "False"]
            /\ ffmpeg_semaphore' = ffmpeg_semaphore + 1
    /\ UNCHANGED <<ffmpeg_waiters, m3u8_url, encoder_runs, encoder_total, drm_error>>
    /\ UNCHANGED <<pvars, rvars, avars, qvars>>

\* process.communicate() of the second encoder returns: the local manifest
\* copy is unlinked; a DRM indicator in stderr (raised and caught) or a
\* non-zero exit code make _retry_with_headers return False and the job
\* raise; otherwise the output file is validated and the job returns
SecondEncoderExits(j, run) ==
    /\ job_pc[j] = "encoding_retry"
    /\ returncode' = [returncode EXCEPT ![j] = run.returncode]
    /\ retry_drm_error' = [retry_drm_error EXCEPT ![j] = CheckDrmInContent(run.stderr)]
    /\ output_path' = [output_path EXCEPT ![j] = FileAfter(@, run)]
    /\ temp_m3u8' = [temp_m3u8 EXCEPT ![j] = FALSE]
    /\ job_pc' = [job_pc EXCEPT ![j] = "done"]
    /\ job_result' = [job_result EXCEPT ![j] =
          IF CheckDrmInContent(run.stderr) \/ run.returncode # 0
          THEN "error"
          ELSE IF ValidateFileSize(FileAfter(output_path[j], run), MIN_FILE_SIZE)
          THEN "True" ELSE "False"]
    /\ ffmpeg_semaphore' = ffmpeg_semaphore + 1
    /\ UNCHANGED <<ffmpeg_waiters, m3u8_url, encoder_runs, encoder_total, drm_error>>
    /\ UNCHANGED <<pvars, rvars, avars, qvars>>

(***************************************************************************)
(* The streaming encoder of _stream_track_directly: generate() starts the  *)
(* encoder process itself, outside the transcode gate.                     *)
(***************************************************************************)
\* generate() is iterated for the first time: create_subprocess_exec
SpawnStream(s) ==
    /\ stream_pc' = [stream_pc EXCEPT ![s] = "running"]
    /\ UNCHANGED <<stream_returncode, stream_sent>>

\* the streaming encoder process ends: stdout is exhausted and
\* process.wait() returns its exit code
EndStream(s, code) ==
    /\ stream_pc' = [stream_pc EXCEPT ![s] = "exited"]
    /\ stream_returncode' = [stream_returncode EXCEPT ![s] = code]
    /\ UNCHANGED stream_sent

\* the sizes of the chunks read from the encoder's stdout (at most
\* STREAM_CHUNK_SIZE bytes each)
ChunkSizes == {MIN_FILE_SIZE \div 2, MIN_FILE_SIZE - 1}

\* one pass of `while True` of generate(): a chunk of n bytes is read from
\* the encoder's stdout and yielded to the consumer (the model stops
\* counting at twice MIN_FILE_SIZE)
StreamYields(s, n) ==
    /\ stream_pc[s] = "running"
    /\ stream_sent[s] + n <= 2 * MIN_FILE_SIZE
    /\ stream_sent' = [stream_sent EXCEPT ![s] = @ + n]
    /\ UNCHANGED <<stream_pc, stream_returncode, asm_kind, asm_pc,
                   asm_transcodes, asm_outcome>>
    /\ UNCHANGED <<pvars, tvars, rvars, qvars>>

\* the response of some streaming request starts to be sent
StartStream(s) ==
    /\ stream_pc[s] = "idle"
    /\ SpawnStream(s)
    /\ UNCHANGED <<asm_kind, asm_pc, asm_transcodes, asm_outcome>>
    /\ UNCHANGED <<pvars, tvars, rvars, qvars>>

\* the encoder of a streaming request exits while its output is consumed
StreamExits(s, code) ==
    /\ stream_pc[s] = "running"
    /\ EndStream(s, code)
    /\ UNCHANGED <<asm_kind, asm_pc, asm_transcodes, asm_outcome>>
    /\ UNCHANGED <<pvars, tvars, rvars, qvars>>

\* the consumer stops iterating generate(): GeneratorExit is raised at
\* `yield chunk`; `except Exception` does not catch it, so process.kill()
\* is not called and the process is left to itself
AbandonStream(s) ==
    /\ stream_pc[s] = "running"
    /\ stream_pc' = [stream_pc EXCEPT ![s] = "orphan"]
    /\ UNCHANGED <<stream_returncode, stream_sent, asm_kind, asm_pc, asm_transcodes,
                   asm_outcome>>
    /\ UNCHANGED <<pvars, tvars, rvars, qvars>>

\* a process left to itself ends (it exits, or is killed when its
\* transport is collected)
OrphanExits(s, code) ==
    /\ stream_pc[s] = "orphan"
    /\ EndStream(s, code)
    /\ UNCHANGED <<asm_kind, asm_pc, asm_transcodes, asm_outcome>>
    /\ UNCHANGED <<pvars, tvars, rvars, qvars>>

(***************************************************************************)
(* Item assemblies over the transcode jobs: _download_track_to_memory (the  *)
(* collection context) and download_track (the single-item context, with   *)
(* metadata: buffered, without: streaming). Assembly a uses job a, whose   *)
(* output_path is the temporary file of the assembly, and stream a.        *)
(***************************************************************************)
\* LocateAnswers, mutated: get_stream_url also returns manifest URLs with
\* the marker
LocateAnswersAnyUrl ==
    [kind : {"url"}, url : Urls]
    \cup [kind : {"no_id", "error", "drm"}, url : {{}}]

\* what get_stream_url answers: a manifest URL (never one with the marker:
\* get_stream_url returns only URLs that pass is_drm_protected_url), the
\* DRM-specific error or another error; "no_id": the record has no id
LocateAnswers ==
    [kind : {"url"}, url : {u \in Urls : ~IsDrmProtectedUrl(u)}]
    \cup [kind : {"no_id", "error", "drm"}, url : {{}}]

\* what the tagging step does: "off" (attach_metadata is false), "ok", or
\* "error" (add_metadata_to_mp3 raises)
TagAnswers == {"off", "ok", "error"}

\* tempfile.NamedTemporaryFile(delete=False): the file exists and is empty
NewTempFile == [exists |-> TRUE, size |-> 0]

\* the file after os.unlink
NoFile == [exists |-> FALSE, size |-> 0]

\* if os.path.exists(output_path): os.unlink(output_path); job j is over
\* and nothing else of it changes
Unlink(j) ==
    /\ output_path' = [output_path EXCEPT ![j] = NoFile]
    /\ UNCHANGED <<ffmpeg_semaphore, ffmpeg_waiters, job_pc, m3u8_url,
                   temp_m3u8, returncode, drm_error, retry_drm_error,
                   encoder_runs, encoder_total, job_result>>

\* the assembly ends with the given outcome
EndAssembly(a, outcome) ==
    /\ asm_pc' = [asm_pc EXCEPT ![a] = "done"]
    /\ asm_outcome' = [asm_outcome EXCEPT ![a] = outcome]

\* how an exception of _download_with_ffmpeg is seen by the caller: the
\* DRM-specific message or another one
Raised(res) == IF res = "drm_error" THEN "raised_drm" ELSE "raised"

\* _download_track_to_memory up to its first transcode: no id, a locate
\* error or a URL with the marker return None before any file is created;
\* otherwise the temporary file is created and _download_with_ffmpeg called
BeginItem(a, located) ==
    /\ asm_pc[a] = "idle"
    /\ asm_kind' = [asm_kind EXCEPT ![a] = "item"]
    /\ IF located.kind # "url" \/ IsDrmProtectedUrl(located.url)
       THEN /\ EndAssembly(a, "None")
            /\ UNCHANGED <<asm_transcodes, tvars>>
       ELSE /\ asm_pc' = [asm_pc EXCEPT ![a] = "transcoding"]
            /\ asm_transcodes' = [asm_transcodes EXCEPT ![a] = 1]
            /\ CallDownloadWithFfmpeg(a, located.url, NewTempFile)
            /\ UNCHANGED asm_outcome
    /\ UNCHANGED <<stream_pc, stream_returncode, stream_sent>>
    /\ UNCHANGED <<pvars, rvars, qvars>>

\* ItemTranscodeReturns, mutated: a transcode that raised is repeated once
\* like an undersized one
ItemTranscodeReturnsRepeatsErrors(a, tag) ==
    /\ asm_kind[a] = "item"
    /\ asm_pc[a] = "transcoding"
    /\ job_pc[a] = "done"
    /\ LET res == job_result[a] IN
        IF res = "True" /\ ValidateFileSize(output_path[a], MIN_FILE_SIZE)
        THEN /\ EndAssembly(a, IF tag = "error" THEN "raised" ELSE "bytes")
             /\ Unlink(a)
             /\ UNCHANGED asm_transcodes
        ELSE IF asm_transcodes[a] = 1
        THEN /\ asm_transcodes' = [asm_transcodes EXCEPT ![a] = 2]
             /\ CallDownloadWithFfmpeg(a, m3u8_url[a], NoFile)
             /\ UNCHANGED <<asm_pc, asm_outcome>>
        ELSE /\ EndAssembly(a, IF res \in {"drm_error", "error"}
                               THEN Raised(res) ELSE "None")
             /\ Unlink(a)
             /\ UNCHANGED asm_transcodes
    /\ UNCHANGED <<stream_pc, stream_returncode, stream_sent, asm_kind>>
    /\ UNCHANGED <<pvars, rvars, qvars>>

\* _download_with_ffmpeg has ended in _download_track_to_memory: an
\* exception leaves through the finally clause; a False or an undersized
\* file unlinks the file and transcodes once more, and returns None the
\* second time; otherwise the file is tagged, read and unlinked
ItemTranscodeReturns(a, tag) ==
    /\ asm_kind[a] = "item"
    /\ asm_pc[a] = "transcoding"
    /\ job_pc[a] = "done"
    /\ LET res == job_result[a] IN
        IF res \in {"drm_error", "error"}
        THEN /\ EndAssembly(a, Raised(res))
             /\ Unlink(a)
             /\ UNCHANGED asm_transcodes
        ELSE IF res = "True" /\ ValidateFileSize(output_path[a], MIN_FILE_SIZE)
        THEN /\ EndAssembly(a, IF tag = "error" THEN "raised" ELSE "bytes")
             /\ Unlink(a)
             /\ UNCHANGED asm_transcodes
        ELSE IF asm_transcodes[a] = 1
        THEN /\ asm_transcodes' = [asm_transcodes EXCEPT ![a] = 2]
             /\ CallDownloadWithFfmpeg(a, m3u8_url[a], NoFile)
             /\ UNCHANGED <<asm_pc, asm_outcome>>
        ELSE /\ EndAssembly(a, "None")
             /\ Unlink(a)
             /\ UNCHANGED asm_transcodes
    /\ UNCHANGED <<stream_pc, stream_returncode, stream_sent, asm_kind>>
    /\ UNCHANGED <<pvars, rvars, qvars>>

\* download_track up to the transcode: an error of resolve or of
\* get_stream_url is raised as "Track download failed"; with
\* attach_metadata the temporary file is created and _download_with_ffmpeg
\* called; without, the StreamingResponse over generate() is returned,
\* whose generator keeps m3u8_url for its encoder
BeginSingle(a, located, attach_metadata) ==
    /\ asm_pc[a] = "idle"
    /\ located.kind # "no_id"
    /\ asm_kind' = [asm_kind EXCEPT ![a] =
          IF attach_metadata THEN "buffered" ELSE "streaming"]
    /\ IF located.kind # "url"
       THEN /\ EndAssembly(a, IF located.kind = "drm" THEN "raised_drm" ELSE "raised")
            /\ UNCHANGED <<asm_transcodes, tvars>>
       ELSE IF attach_metadata
       THEN /\ asm_pc' = [asm_pc EXCEPT ![a] = "transcoding"]
            /\ asm_transcodes' = [asm_transcodes EXCEPT ![a] = 1]
            /\ CallDownloadWithFfmpeg(a, located.url, NewTempFile)
            /\ UNCHANGED asm_outcome
       ELSE /\ asm_pc' = [asm_pc EXCEPT ![a] = "response"]
            /\ asm_outcome' = [asm_outcome EXCEPT ![a] = "response"]
            /\ m3u8_url' = [m3u8_url EXCEPT ![a] = located.url]
            /\ UNCHANGED <<asm_transcodes, ffmpeg_semaphore, ffmpeg_waiters,
                           job_pc, output_path, temp_m3u8, returncode,
                           drm_error, retry_drm_error, encoder_runs, encoder_total,
                           job_result>>
    /\ UNCHANGED <<stream_pc, stream_returncode, stream_sent>>
    /\ UNCHANGED <<pvars, rvars, qvars>>

\* _download_with_ffmpeg has ended in _download_track_with_metadata: an
\* exception, a False, an undersized file and a tagging error unlink the
\* file and raise; otherwise the response over the file is returned
BufferedTranscodeReturns(a, tag) ==
    /\ asm_kind[a] = "buffered"
    /\ asm_pc[a] = "transcoding"
    /\ job_pc[a] = "done"
    /\ tag # "off"
    /\ LET res == job_result[a]
           file_size == IF output_path[a].exists THEN output_path[a].size ELSE 0 IN
        IF res \in {"drm_error", "error"}
        THEN /\ EndAssembly(a, Raised(res))
             /\ Unlink(a)
        ELSE IF res = "False" \/ file_size < MIN_FILE_SIZE \/ tag = "error"
        THEN /\ EndAssembly(a, "raised")
             /\ Unlink(a)
        ELSE /\ asm_pc' = [asm_pc EXCEPT ![a] = "delivering"]
             /\ asm_outcome' = [asm_outcome EXCEPT ![a] = "response"]
             /\ UNCHANGED tvars
    /\ UNCHANGED <<stream_pc, stream_returncode, stream_sent, asm_kind, asm_transcodes>>
    /\ UNCHANGED <<pvars, rvars, qvars>>

\* generate() of _create_streaming_response is iterated to its end: the
\* file is closed and unlinked
FinishDelivery(a) ==
    /\ asm_pc[a] = "delivering"
    /\ asm_pc' = [asm_pc EXCEPT ![a] = "done"]
    /\ Unlink(a)
    /\ UNCHANGED <<stream_pc, stream_returncode, stream_sent, asm_kind, asm_transcodes,
                   asm_outcome>>
    /\ UNCHANGED <<pvars, rvars, qvars>>

\* the consumer stops iterating generate() of _create_streaming_response
\* (or never starts): the generator is closed at `yield chunk`, the `with`
\* closes the file, and the lines after the loop are never run
AbandonDelivery(a) ==
    /\ asm_pc[a] = "delivering"
    /\ EndAssembly(a, "interrupted")
    /\ UNCHANGED <<stream_pc, stream_returncode, stream_sent, asm_kind, asm_transcodes>>
    /\ UNCHANGED <<pvars, tvars, rvars, qvars>>

\* the response of a streaming download_track starts to be sent: generate()
\* of _stream_track_directly starts the encoder
StreamingBegins(a) ==
    /\ asm_kind[a] = "streaming"
    /\ asm_pc[a] = "response"
    /\ stream_pc[a] = "idle"
    /\ asm_pc' = [asm_pc EXCEPT ![a] = "streaming"]
    /\ SpawnStream(a)
    /\ UNCHANGED <<asm_kind, asm_transcodes, asm_outcome>>
    /\ UNCHANGED <<pvars, tvars, rvars, qvars>>

\* the encoder of a streaming download_track exits: a non-zero exit code
\* raises in generate(), after the response was returned; a zero exit code
\* ends the chunk sequence normally
StreamingExits(a, code) ==
    /\ asm_pc[a] = "streaming"
    /\ stream_pc[a] = "running"
    /\ EndStream(a, code)
    /\ EndAssembly(a, IF code # 0 THEN "stream_failed" ELSE "stream_completed")
    /\ UNCHANGED <<asm_kind, asm_transcodes>>
    /\ UNCHANGED <<pvars, tvars, rvars, qvars>>

\* the consumer of a streaming download_track stops iterating
StreamingAbandoned(a) ==
    /\ asm_pc[a] = "streaming"
    /\ stream_pc[a] = "running"
    /\ stream_pc' = [stream_pc EXCEPT ![a] = "orphan"]
    /\ EndAssembly(a, "interrupted")
    /\ UNCHANGED <<stream_returncode, stream_sent, asm_kind, asm_transcodes>>
    /\ UNCHANGED <<pvars, tvars, rvars, qvars>>

(***************************************************************************)
(* SoundCloudClient.get_client_id and SoundCloudClient.resolve.            *)
(***************************************************************************)
\* the value of SOUNDCLOUD_CLIENT_ID when it is set
EnvToken == "envtoken"

\* the lists _extract_client_ids_from_js_bundles returns
ExtractedLists == {<<>>, <<"scraped1">>}

\* every token of the model
AllTokens == {CLIENT_IDS[k] : k \in 1..Len(CLIENT_IDS)} \cup {EnvToken, "scraped1"}

\* what one get_client_id call finds upstream: the extracted candidates and
\* the tokens that pass the probe _test_client_id
TokenWorlds == [extracted : ExtractedLists, valid : SUBSET AllTokens]

\* the answers of the resolve endpoint: 200, 401, another HTTP error
\* status, or a transport error
ResolveAnswers == {"200", "401", "http_error", "transport_error"}

RECURSIVE FirstValid(_, _)
\* the first candidate of the list that passes the probe, "" if none does
FirstValid(candidates, valid) ==
    IF candidates = <<>> THEN ""
    ELSE IF Head(candidates) \in valid THEN Head(candidates)
    ELSE FirstValid(Tail(candidates), valid)

RECURSIVE ProbedUntilValid(_, _)
\* the candidates of the list that _test_client_id is called on: all up to
\* and including the first that passes
ProbedUntilValid(candidates, valid) ==
    IF candidates = <<>> THEN <<>>
    ELSE IF Head(candidates) \in valid THEN <<Head(candidates)>>
    ELSE <<Head(candidates)>> \o ProbedUntilValid(Tail(candidates), valid)

\* GetClientId, mutated: the static list is tried before the extracted
\* candidates
GetClientIdStaticFirst(cached, force_refresh, world) ==
    IF cached # "" /\ ~force_refresh
    THEN [ok |-> TRUE, token |-> cached, cache |-> cached, probed |-> <<>>,
          tested |-> 0]
    ELSE IF environ # "" /\ environ \in world.valid
    THEN [ok |-> TRUE, token |-> environ, cache |-> environ,
          probed |-> <<environ>>, tested |-> 0]
    ELSE LET all_candidates == CLIENT_IDS \o world.extracted
             found == FirstValid(all_candidates, world.valid)
             probed == (IF environ # "" THEN <<environ>> ELSE <<>>)
                       \o ProbedUntilValid(all_candidates, world.valid) IN
         IF found # ""
         THEN [ok |-> TRUE, token |-> found, cache |-> found,
               probed |-> probed, tested |-> 0]
         ELSE [ok |-> FALSE, token |-> "", cache |-> cached,
               probed |-> probed, tested |-> Len(all_candidates)]

\* get_client_id(force_refresh) on the cache `cached`: whether it returns,
\* the token returned, the cache afterwards, the tokens _test_client_id
\* was called on, in order, and the number of the message "Tested N
\* candidates" (0 when no such message is raised)
GetClientId(cached, force_refresh, world) ==
    IF cached # "" /\ ~force_refresh
    THEN [ok |-> TRUE, token |-> cached, cache |-> cached, probed |-> <<>>,
          tested |-> 0]
    ELSE IF environ # "" /\ environ \in world.valid
    THEN [ok |-> TRUE, token |-> environ, cache |-> environ,
          probed |-> <<environ>>, tested |-> 0]
    ELSE LET all_candidates == world.extracted \o CLIENT_IDS
             found == FirstValid(all_candidates, world.valid)
             probed == (IF environ # "" THEN <<environ>> ELSE <<>>)
                       \o ProbedUntilValid(all_candidates, world.valid) IN
         IF found # ""
         THEN [ok |-> TRUE, token |-> found, cache |-> found,
               probed |-> probed, tested |-> 0]
         ELSE [ok |-> FALSE, token |-> "", cache |-> cached,
               probed |-> probed, tested |-> Len(all_candidates)]

\* CallGetClientId, mutated: a call that fails clears the cache
CallGetClientIdClearsOnFailure(force_refresh, world) ==
    LET got == GetClientId(client_id, force_refresh, world) IN
    /\ client_id' = IF got.ok THEN got.cache ELSE ""
    /\ gc_call' = [force_refresh |-> force_refresh, before |-> client_id,
                   extracted |-> world.extracted, valid |-> world.valid,
                   ok |-> got.ok, token |-> got.token, tested |-> got.tested,
                   probed |-> got.probed]
    /\ UNCHANGED <<environ, resolve_pc, attempt, params_client_id, responses,
                   refreshes, client_id_at_request, resolve_error>>
    /\ UNCHANGED <<pvars, tvars, avars, lvars, ivars, xvars, cvars, bvars>>

\* one call of get_client_id(force_refresh) on the client; gc_call keeps
\* the cache before the call, what the call found upstream and what it
\* did
CallGetClientId(force_refresh, world) ==
    LET got == GetClientId(client_id, force_refresh, world) IN
    /\ client_id' = got.cache
    /\ gc_call' = [force_refresh |-> force_refresh, before |-> client_id,
                   extracted |-> world.extracted, valid |-> world.valid,
                   ok |-> got.ok, token |-> got.token, tested |-> got.tested,
                   probed |-> got.probed]
    /\ UNCHANGED <<environ, resolve_pc, attempt, params_client_id, responses,
                   refreshes, client_id_at_request, resolve_error>>
    /\ UNCHANGED <<pvars, tvars, avars, lvars, ivars, xvars, cvars, bvars>>

\* resolve(url) is called
CallResolve ==
    /\ resolve_pc = "idle"
    /\ resolve_pc' = "get_token"
    /\ UNCHANGED <<environ, client_id, attempt, params_client_id, responses,
                   refreshes, client_id_at_request, resolve_error>>
    /\ UNCHANGED <<pvars, tvars, avars, qvars>>

\* client_id = await self.get_client_id(); when it raises, the handler
\* clears the cache and asks once more with force_refresh
GetToken(world) ==
    /\ resolve_pc = "get_token"
    /\ LET got == GetClientId(client_id, FALSE, world) IN
        IF got.ok
        THEN /\ client_id' = got.cache
             /\ params_client_id' = got.token
             /\ resolve_pc' = "request"
        ELSE /\ client_id' = ""
             /\ resolve_pc' = "get_token_again"
             /\ UNCHANGED params_client_id
    /\ UNCHANGED <<environ, attempt, responses, refreshes,
                   client_id_at_request, resolve_error>>
    /\ UNCHANGED <<pvars, tvars, avars, qvars>>

\* client_id = await self.get_client_id(force_refresh=True) in the handler:
\* its exception leaves resolve
GetTokenAgain(world) ==
    /\ resolve_pc = "get_token_again"
    /\ LET got == GetClientId(client_id, TRUE, world) IN
        IF got.ok
        THEN /\ client_id' = got.cache
             /\ params_client_id' = got.token
             /\ resolve_pc' = "request"
             /\ UNCHANGED resolve_error
        ELSE /\ resolve_pc' = "failed"
             /\ resolve_error' = "no_token"
             /\ UNCHANGED <<client_id, params_client_id>>
    /\ UNCHANGED <<environ, attempt, responses, refreshes,
                   client_id_at_request>>
    /\ UNCHANGED <<pvars, tvars, avars, qvars>>

\* SendRequest, mutated: every HTTP error status is handled as a 401
SendRequestAnyStatusRefreshes(answer) ==
    /\ resolve_pc = "request"
    /\ responses' = Append(responses, answer)
    /\ client_id_at_request' = client_id
    /\ IF answer = "200"
       THEN /\ resolve_pc' = "returned"
            /\ UNCHANGED <<client_id, resolve_error>>
       ELSE IF answer \in {"401", "http_error"}
       THEN IF attempt < max_retries - 1
            THEN /\ client_id' = ""
                 /\ resolve_pc' = "refresh"
                 /\ UNCHANGED resolve_error
            ELSE /\ resolve_pc' = "failed"
                 /\ resolve_error' = "unauthorized"
                 /\ UNCHANGED client_id
       ELSE /\ resolve_pc' = "failed"
            /\ resolve_error' = "transport"
            /\ UNCHANGED client_id
    /\ UNCHANGED <<environ, attempt, params_client_id, refreshes>>
    /\ UNCHANGED <<pvars, tvars, avars, qvars>>

\* SendRequest, mutated: a 401 is answered by a refresh on the last attempt
\* too
SendRequestAlwaysRefreshes(answer) ==
    /\ resolve_pc = "request"
    /\ responses' = Append(responses, answer)
    /\ client_id_at_request' = client_id
    /\ IF answer = "200"
       THEN /\ resolve_pc' = "returned"
            /\ UNCHANGED <<client_id, resolve_error>>
       ELSE IF answer = "401"
       THEN /\ client_id' = ""
            /\ resolve_pc' = "refresh"
            /\ UNCHANGED resolve_error
       ELSE /\ resolve_pc' = "failed"
            /\ resolve_error' = IF answer = "http_error" THEN "http" ELSE "transport"
            /\ UNCHANGED client_id
    /\ UNCHANGED <<environ, attempt, params_client_id, refreshes>>
    /\ UNCHANGED <<pvars, tvars, avars, qvars>>

\* one pass of the retry loop up to the answer: response = await
\* self.client.get(resolve_url, params); 200 returns the payload; a 401 on
\* an attempt before the last clears the cache and goes to the refresh, on
\* the last attempt it raises; any other HTTP error status and any other
\* exception raise at once
SendRequest(answer) ==
    /\ resolve_pc = "request"
    /\ responses' = Append(responses, answer)
    /\ client_id_at_request' = client_id
    /\ IF answer = "200"
       THEN /\ resolve_pc' = "returned"
            /\ UNCHANGED <<client_id, resolve_error>>
       ELSE IF answer = "401"
       THEN IF attempt < max_retries - 1
            THEN /\ client_id' = ""
                 /\ resolve_pc' = "refresh"
                 /\ UNCHANGED resolve_error
            ELSE /\ resolve_pc' = "failed"
                 /\ resolve_error' = "unauthorized"
                 /\ UNCHANGED client_id
       ELSE /\ resolve_pc' = "failed"
            /\ resolve_error' = IF answer = "http_error" THEN "http" ELSE "transport"
            /\ UNCHANGED client_id
    /\ UNCHANGED <<environ, attempt, params_client_id, refreshes>>
    /\ UNCHANGED <<pvars, tvars, avars, qvars>>

\* the 401 handler: new_client_id = await self.get_client_id(force_refresh=
\* True); on success the parameter is replaced and the loop continues; on
\* failure the loop continues with the old parameter when attempt is 0 and
\* the 401 error is raised otherwise. A loop left without return or raise
\* ends in "Failed to resolve URL after all retry attempts"
Refresh(world) ==
    /\ resolve_pc = "refresh"
    /\ refreshes' = refreshes + 1
    /\ LET got == GetClientId(client_id, TRUE, world) IN
        /\ client_id' = got.cache
        /\ params_client_id' = IF got.ok THEN got.token ELSE params_client_id
        /\ IF got.ok \/ attempt = 0
           THEN /\ attempt' = attempt + 1
                /\ IF attempt + 1 < max_retries
                   THEN /\ resolve_pc' = "request"
                        /\ UNCHANGED resolve_error
                   ELSE /\ resolve_pc' = "failed"
                        /\ resolve_error' = "exhausted"
           ELSE /\ resolve_pc' = "failed"
                /\ resolve_error' = "unauthorized"
                /\ UNCHANGED attempt
    /\ UNCHANGED <<environ, responses, client_id_at_request>>
    /\ UNCHANGED <<pvars, tvars, avars, qvars>>

(***************************************************************************)
(* Concurrent resolve calls on one client. get_client_id is suspended at   *)
(* every probe (await self._test_client_id), so the calls of different     *)
(* callers interleave probe by probe; the client has no lock.              *)
(***************************************************************************)
\* the tokens a get_client_id call that goes past the cache probes, in
\* order: the environment override, the extracted candidates, CLIENT_IDS
ProbeOrder(extracted) ==
    (IF environ # "" THEN <<environ>> ELSE <<>>) \o extracted \o CLIENT_IDS

\* caller c calls resolve: get_client_id() returns the cached token at
\* once, or starts probing
CallerResolves(c, extracted) ==
    /\ c_pc[c] = "idle"
    /\ IF client_id # ""
       THEN /\ c_pc' = [c_pc EXCEPT ![c] = "request"]
            /\ UNCHANGED c_left
       ELSE /\ c_pc' = [c_pc EXCEPT ![c] = "probing"]
            /\ c_left' = [c_left EXCEPT ![c] = ProbeOrder(extracted)]
    /\ UNCHANGED <<c_stage, c_attempt, validated>>
    /\ UNCHANGED rvars
    /\ UNCHANGED <<pvars, tvars, avars, gvars, lvars, ivars, xvars, bvars>>

\* what follows the end of a get_client_id call of caller c in resolve:
\* after a token was returned the request is sent (the refresh of the 401
\* handler counts an attempt); the first call's exception clears the cache
\* and calls again with force_refresh; the second call's exception leaves
\* resolve; the exception of the refresh, at attempt 0, goes on to the
\* next attempt
AfterGetClientId(c, ok, extracted) ==
    IF ok
    THEN /\ c_pc' = [c_pc EXCEPT ![c] = "request"]
         /\ c_attempt' = [c_attempt EXCEPT ![c] =
                             IF c_stage[c] = "refresh" THEN @ + 1 ELSE @]
         /\ c_left' = [c_left EXCEPT ![c] = <<>>]
         /\ UNCHANGED c_stage
    ELSE IF c_stage[c] = "initial"
    THEN /\ c_stage' = [c_stage EXCEPT ![c] = "again"]
         /\ c_left' = [c_left EXCEPT ![c] = ProbeOrder(extracted)]
         /\ UNCHANGED <<c_pc, c_attempt>>
    ELSE IF c_stage[c] = "again"
    THEN /\ c_pc' = [c_pc EXCEPT ![c] = "failed"]
         /\ c_left' = [c_left EXCEPT ![c] = <<>>]
         /\ UNCHANGED <<c_stage, c_attempt>>
    ELSE /\ c_pc' = [c_pc EXCEPT ![c] = "request"]
         /\ c_attempt' = [c_attempt EXCEPT ![c] = @ + 1]
         /\ c_left' = [c_left EXCEPT ![c] = <<>>]
         /\ UNCHANGED c_stage

\* CallerProbes, mutated: the last candidate is cached without a passing
\* probe
CallerProbesCachesLast(c, passes, extracted) ==
    /\ c_pc[c] = "probing"
    /\ c_left[c] # <<>>
    /\ LET candidate == Head(c_left[c]) IN
        IF passes \/ Len(c_left[c]) = 1
        THEN /\ client_id' = candidate
             /\ validated' = IF passes THEN validated \cup {candidate} ELSE validated
             /\ AfterGetClientId(c, TRUE, extracted)
        ELSE /\ c_left' = [c_left EXCEPT ![c] = Tail(@)]
             /\ UNCHANGED <<client_id, validated, c_pc, c_stage, c_attempt>>
    /\ UNCHANGED <<environ, resolve_pc, attempt, params_client_id, responses,
                   refreshes, client_id_at_request, resolve_error>>
    /\ UNCHANGED <<pvars, tvars, avars, gvars, lvars, ivars, xvars, bvars>>

\* one probe of the get_client_id call of caller c returns: a candidate
\* that passes is cached and returned; after the last candidate failed the
\* call raises (and the handler of the first call clears the cache)
CallerProbes(c, passes, extracted) ==
    /\ c_pc[c] = "probing"
    /\ c_left[c] # <<>>
    /\ LET candidate == Head(c_left[c]) IN
        IF passes
        THEN /\ client_id' = candidate
             /\ validated' = validated \cup {candidate}
             /\ AfterGetClientId(c, TRUE, extracted)
        ELSE IF Len(c_left[c]) = 1
        THEN /\ client_id' = IF c_stage[c] = "initial" THEN "" ELSE client_id
             /\ AfterGetClientId(c, FALSE, extracted)
             /\ UNCHANGED validated
        ELSE /\ c_left' = [c_left EXCEPT ![c] = Tail(@)]
             /\ UNCHANGED <<client_id, validated, c_pc, c_stage, c_attempt>>
    /\ UNCHANGED <<environ, resolve_pc, attempt, params_client_id, responses,
                   refreshes, client_id_at_request, resolve_error>>
    /\ UNCHANGED <<pvars, tvars, avars, gvars, lvars, ivars, xvars, bvars>>

\* the resolve endpoint answers the request of caller c: 200 returns; a
\* 401 on attempt 0 clears the cache and starts the forced refresh, on the
\* last attempt it raises; any other error raises
CallerGetsAnswer(c, answer, extracted) ==
    /\ c_pc[c] = "request"
    /\ IF answer = "200"
       THEN /\ c_pc' = [c_pc EXCEPT ![c] = "returned"]
            /\ UNCHANGED <<client_id, c_stage, c_left>>
       ELSE IF answer = "401" /\ c_attempt[c] < max_retries - 1
       THEN /\ client_id' = ""
            /\ c_pc' = [c_pc EXCEPT ![c] = "probing"]
            /\ c_stage' = [c_stage EXCEPT ![c] = "refresh"]
            /\ c_left' = [c_left EXCEPT ![c] = ProbeOrder(extracted)]
       ELSE /\ c_pc' = [c_pc EXCEPT ![c] = "failed"]
            /\ UNCHANGED <<client_id, c_stage, c_left>>
    /\ UNCHANGED <<c_attempt, validated>>
    /\ UNCHANGED <<environ, resolve_pc, attempt, params_client_id, responses,
                   refreshes, client_id_at_request, resolve_error>>
    /\ UNCHANGED <<pvars, tvars, avars, gvars, lvars, ivars, xvars, bvars>>

(***************************************************************************)
(* SoundCloudClient.get_stream_url with _try_alternative_stream_url. A     *)
(* descriptor is [protocol, url]: the markers its declared protocol and    *)
(* its URL contain; the URL {} is a missing URL.                           *)
(***************************************************************************)
\* the transcoding descriptors of a track
Descriptors ==
    [protocol : {{"progressive"}, {"hls"}, {"hls", "cenc"}},
     url : {{}, {"https"}, {"https", "cenc"}}]

RECURSIVE SeqsUpTo(_, _)
\* the sequences over S of length at most n
SeqsUpTo(S, n) ==
    IF n = 0 THEN {<<>>}
    ELSE LET shorter == SeqsUpTo(S, n - 1) IN
         shorter \cup {Append(q, x) : q \in shorter, x \in S}

\* the answers to the fetch of a signed URL: an HTTP or transport error, a
\* payload without "url", or a payload with a manifest URL
LocateFetches ==
    [kind : {"error", "no_url"}, url : {{}}] \cup [kind : {"url"}, url : Urls]

\* the list transcodings_to_try (the very list object non_drm_transcodings
\* or drm_transcodings)
TranscodingsToTry ==
    IF to_try = "non_drm" THEN non_drm_transcodings ELSE drm_transcodings

\* list.remove(x)
Remove(list, x) == SelectSeq(list, LAMBDA y : y # x)

\* the call ends with the given result
LocateEnds(kind, url, via) ==
    /\ loc_pc' = "done"
    /\ loc_result' = [kind |-> kind, url |-> url, via |-> via]

\* the test of the classification loop on a descriptor: "hls" or "stream"
\* in its protocol
Streamable(tc) == "hls" \in tc.protocol \/ "stream" \in tc.protocol

\* the classification loop: the positions of the streamable descriptors
\* whose URL has "cenc" (protected) or has not, in the order of
\* transcodings
Classified(protected) ==
    SelectSeq([k \in 1..Len(transcodings) |-> k],
              LAMBDA k : /\ Streamable(transcodings[k])
                         /\ ("cenc" \in transcodings[k].url) = protected)

\* get_stream_url up to its loop: resolve or get_client_id may raise; the
\* descriptors with "hls" or "stream" in the protocol are put in
\* non_drm_transcodings when their URL has no "cenc" and in
\* drm_transcodings otherwise; the first list is tried if not empty
CallGetStreamUrl(entry_ok) ==
    /\ loc_pc = "idle"
    /\ LET non_drm == Classified(FALSE)
           drm == Classified(TRUE) IN
        /\ non_drm_transcodings' = IF entry_ok THEN non_drm ELSE <<>>
        /\ drm_transcodings' = IF entry_ok THEN drm ELSE <<>>
        /\ to_try' = IF entry_ok /\ non_drm = <<>> THEN "drm" ELSE "non_drm"
        /\ IF ~entry_ok
           THEN LocateEnds("error", {}, "entry")
           ELSE IF transcodings = <<>>
           THEN LocateEnds("error_no_transcodings", {}, "entry")
           ELSE IF non_drm = <<>> /\ drm = <<>>
           THEN LocateEnds("error_no_hls", {}, "entry")
           ELSE /\ loc_pc' = "loop"
                /\ UNCHANGED loc_result
    /\ UNCHANGED <<transcodings, track_id, loop_i, last_error, fetched,
                   rejected>>
    /\ UNCHANGED <<pvars, tvars, rvars, avars, gvars, ivars, xvars, cvars, bvars>>

\* one pass of `for hls_transcoding in transcodings_to_try`: a descriptor
\* without URL is passed over; the signed URL is fetched; an error is kept
\* in last_error; a manifest URL with the marker removes the descriptor
\* from non_drm_transcodings (the list being iterated, when it is that
\* list) and sets last_error to the DRM exception unless descriptors
\* remain in non_drm_transcodings; a manifest URL without it is returned
TryTranscoding(answer) ==
    /\ loc_pc = "loop"
    /\ loop_i <= Len(TranscodingsToTry)
    /\ LET item == TranscodingsToTry[loop_i]
           is_drm == answer.kind = "url" /\ IsDrmProtectedUrl(answer.url)
           listed == \E k \in 1..Len(non_drm_transcodings) :
                        non_drm_transcodings[k] = item
           remaining == IF is_drm /\ listed
                        THEN Remove(non_drm_transcodings, item)
                        ELSE non_drm_transcodings IN
        /\ loop_i' = loop_i + 1
        /\ IF transcodings[item].url = {}
           THEN UNCHANGED <<non_drm_transcodings, last_error, fetched,
                            rejected, loc_pc, loc_result>>
           ELSE /\ fetched' = Append(fetched, item)
                /\ rejected' = IF is_drm THEN Append(rejected, item) ELSE rejected
                /\ non_drm_transcodings' = remaining
                /\ last_error' =
                      IF answer.kind = "error" THEN "other"
                      ELSE IF is_drm /\ ~(listed /\ remaining # <<>>) THEN "drm"
                      ELSE last_error
                /\ IF answer.kind = "url" /\ ~is_drm
                   THEN LocateEnds("url", answer.url, "candidate")
                   ELSE UNCHANGED <<loc_pc, loc_result>>
    /\ UNCHANGED <<transcodings, track_id, drm_transcodings, to_try>>
    /\ UNCHANGED <<pvars, tvars, rvars, avars, gvars, ivars, xvars, cvars, bvars>>

\* how get_stream_url fails after the loop and the alternative
LocateError ==
    IF last_error = "drm" THEN "error_drm"
    ELSE IF last_error = "other" THEN "error_all_failed"
    ELSE "error_none_working"

\* TryAlternative, mutated: the URL of the alternative is not checked
TryAlternativeUnchecked(answer) ==
    /\ loc_pc = "loop"
    /\ loop_i > Len(TranscodingsToTry)
    /\ LET secret == \E k \in 1..Len(transcodings) : transcodings[k].url # {} IN
        IF secret /\ track_id /\ answer.kind = "url"
        THEN LocateEnds("url", answer.url, "alternative")
        ELSE LocateEnds(LocateError, {}, "alternative")
    /\ UNCHANGED <<transcodings, track_id, non_drm_transcodings,
                   drm_transcodings, to_try, loop_i, last_error, fetched,
                   rejected>>
    /\ UNCHANGED <<pvars, tvars, rvars, avars, gvars, ivars, xvars, cvars, bvars>>

\* the loop is exhausted: _try_alternative_stream_url takes the secret
\* from the first descriptor that has a URL and, with a track id, fetches
\* the media endpoint; its manifest URL is returned if it has no marker;
\* otherwise the DRM exception kept in last_error, or a generic error, is
\* raised
TryAlternative(answer) ==
    /\ loc_pc = "loop"
    /\ loop_i > Len(TranscodingsToTry)
    /\ LET secret == \E k \in 1..Len(transcodings) : transcodings[k].url # {} IN
        IF secret /\ track_id /\ answer.kind = "url"
              /\ ~IsDrmProtectedUrl(answer.url)
        THEN LocateEnds("url", answer.url, "alternative")
        ELSE LocateEnds(LocateError, {}, "alternative")
    /\ UNCHANGED <<transcodings, track_id, non_drm_transcodings,
                   drm_transcodings, to_try, loop_i, last_error, fetched,
                   rejected>>
    /\ UNCHANGED <<pvars, tvars, rvars, avars, gvars, ivars, xvars, cvars, bvars>>

(***************************************************************************)
(* SoundCloudClient._format_playlist_info with _get_tracks_by_ids. A value *)
(* that is missing, None or empty is "", a key that is absent is "absent". *)
(***************************************************************************)
\* the items of a resolved collection: with or without id (ids are the
\* positions), title and user.username
RawTracks == [id : BOOLEAN, title : {"", "T"}, artist : {"", "A"}]

\* a full track record as the batch lookup or resolve returns it
FullTracks == [title : {"absent", "", "FT"}, artist : {"absent", "", "FA"}]

\* what a lookup of one item gives: no record, or a full record
Lookups == {<<>>} \cup {<<full>> : full \in FullTracks}

\* dict.get(key, "Unknown")
GetOrUnknown(value) == IF value = "absent" THEN "Unknown" ELSE value

\* value or "Unknown"
OrUnknown(value) == IF value = "" THEN "Unknown" ELSE value

\* _format_playlist_info up to its loop: with at least one id the batch
\* lookup _get_tracks_by_ids is made (the token is cached: resolve has just
\* returned); an error of a batch request gives the empty mapping
CallFormatPlaylistInfo(batch_ok) ==
    /\ info_pc = "idle"
    /\ info_pc' = "loop"
    /\ batch_failed' = ((\E k \in 1..Len(tracks) : tracks[k].id) /\ ~batch_ok)
    /\ UNCHANGED <<tracks, track_list, info_result>>
    /\ UNCHANGED <<pvars, tvars, rvars, avars, gvars, lvars, xvars, cvars, bvars>>

\* the entry of track_list for the item at position k, its record of the
\* batch lookup being batch and the answer to its resolve-by-id being
\* individual (<<>>: the resolve raises)
FormatEntry(k, batch, individual) ==
    LET track == tracks[k] IN
    IF track.id /\ batch # <<>>
    THEN [title |-> OrUnknown(GetOrUnknown(batch[1].title)),
          artist |-> OrUnknown(GetOrUnknown(batch[1].artist)),
          id |-> k, source |-> "batch"]
    ELSE IF (track.title = "" \/ track.artist = "") /\ track.id
    THEN IF individual # <<>>
         THEN [title |-> OrUnknown(GetOrUnknown(individual[1].title)),
               artist |-> OrUnknown(GetOrUnknown(individual[1].artist)),
               id |-> k, source |-> "individual"]
         ELSE [title |-> OrUnknown(OrUnknown(track.title)),
               artist |-> OrUnknown(OrUnknown(track.artist)),
               id |-> k, source |-> "none"]
    ELSE [title |-> OrUnknown(track.title), artist |-> OrUnknown(track.artist),
          id |-> IF track.id THEN k ELSE 0, source |-> "listed"]

\* FormatTrack, mutated: the error of the resolve-by-id is not caught
FormatTrackUncaught(batch, individual) ==
    /\ info_pc = "loop"
    /\ Len(track_list) < Len(tracks)
    /\ batch_failed \/ ~tracks[Len(track_list) + 1].id => batch = <<>>
    /\ LET entry == FormatEntry(Len(track_list) + 1, batch, individual) IN
        IF entry.source = "none"
        THEN /\ info_pc' = "done"
             /\ info_result' = "raised"
             /\ UNCHANGED track_list
        ELSE /\ track_list' = Append(track_list, entry)
             /\ UNCHANGED <<info_pc, info_result>>
    /\ UNCHANGED <<tracks, batch_failed>>
    /\ UNCHANGED <<pvars, tvars, rvars, avars, gvars, lvars, xvars, cvars, bvars>>

\* one pass of `for track in tracks`: the full record of the batch lookup
\* is preferred; without it an item with an id and a missing title or
\* artist is resolved by id, and keeps what it has when that raises; the
\* entry is appended with "Unknown" for what is still missing
FormatTrack(batch, individual) ==
    /\ info_pc = "loop"
    /\ Len(track_list) < Len(tracks)
    /\ batch_failed \/ ~tracks[Len(track_list) + 1].id => batch = <<>>
    /\ track_list' = Append(track_list,
                            FormatEntry(Len(track_list) + 1, batch, individual))
    /\ UNCHANGED <<info_pc, tracks, batch_failed, info_result>>
    /\ UNCHANGED <<pvars, tvars, rvars, avars, gvars, lvars, xvars, cvars, bvars>>

\* the loop is exhausted: the info record is returned
ReturnPlaylistInfo ==
    /\ info_pc = "loop"
    /\ Len(track_list) = Len(tracks)
    /\ info_pc' = "done"
    /\ info_result' = "returned"
    /\ UNCHANGED <<tracks, batch_failed, track_list>>
    /\ UNCHANGED <<pvars, tvars, rvars, avars, gvars, lvars, xvars, cvars, bvars>>

(***************************************************************************)
(* Specification of the packager.                                          *)
(***************************************************************************)
RECURSIVE SumTo(_, _)
\* n[1] + ... + n[r]
SumTo(n, r) == IF r = 0 THEN 0 ELSE n[r] + SumTo(n, r - 1)

\* the requests' sizes: at least one track each (download_playlist raises
\* on an empty track list), MaxTracks tasks in all; a size of 0 stands for
\* a request that is never made
TrackCounts ==
    {n \in [Requests -> 0..MaxTracks] :
        /\ n[1] >= 1
        /\ \A r \in Requests : r > 1 /\ n[r] > 0 => n[r - 1] >= n[r]
        /\ SumTo(n, NumRequests) <= MaxTracks}

\* the packager before any request, the sizes of the requests being n
PackagerInit(n) ==
    /\ total_tracks = n
    /\ download_semaphore = MAX_CONCURRENT_DOWNLOADS
    /\ download_waiters = <<>>
    /\ task_pc = [t \in Tasks |-> "none"]
    /\ fate = [t \in Tasks |-> NoFate]
    /\ result = [t \in Tasks |-> None]
    /\ task_raised = [t \in Tasks |-> FALSE]
    /\ gen_pc = [r \in Requests |-> "idle"]
    /\ done_queue = [r \in Requests |-> <<>>]
    /\ taken = [r \in Requests |-> 0]
    /\ completed_tracks = [r \in Requests |-> {}]
    /\ next_expected_idx = [r \in Requests |-> 0]
    /\ tracks_added = [r \in Requests |-> 0]
    /\ last_zip_size = [r \in Requests |-> 0]
    /\ zip_lock = [r \in Requests |-> FALSE]
    /\ zip_path = [r \in Requests |-> <<>>]
    /\ zip_exists = [r \in Requests |-> FALSE]
    /\ emitted = [r \in Requests |-> <<>>]

\* the transcode gate and the jobs before any call
TranscodeInit ==
    /\ ffmpeg_semaphore = MAX_CONCURRENT_FFMPEG
    /\ ffmpeg_waiters = <<>>
    /\ job_pc = [j \in Jobs |-> "idle"]
    /\ m3u8_url = [j \in Jobs |-> {"https"}]
    /\ output_path = [j \in Jobs |-> [exists |-> FALSE, size |-> 0]]
    /\ temp_m3u8 = [j \in Jobs |-> FALSE]
    /\ returncode = [j \in Jobs |-> 0]
    /\ drm_error = [j \in Jobs |-> FALSE]
    /\ retry_drm_error = [j \in Jobs |-> FALSE]
    /\ encoder_runs = [j \in Jobs |-> 0]
    /\ encoder_total = [j \in Jobs |-> 0]
    /\ job_result = [j \in Jobs |-> "-"]

\* no assembly and no streaming encoder yet
AssemblyInit ==
    /\ stream_pc = [s \in Jobs |-> "idle"]
    /\ stream_returncode = [s \in Jobs |-> 0]
    /\ stream_sent = [s \in Jobs |-> 0]
    /\ asm_kind = [a \in Jobs |-> "-"]
    /\ asm_pc = [a \in Jobs |-> "idle"]
    /\ asm_transcodes = [a \in Jobs |-> 0]
    /\ asm_outcome = [a \in Jobs |-> "-"]

\* get_stream_url before it is called on a track with the given
\* descriptors
LocateInit(tcs, has_id) ==
    /\ loc_pc = "idle"
    /\ transcodings = tcs
    /\ track_id = has_id
    /\ non_drm_transcodings = <<>>
    /\ drm_transcodings = <<>>
    /\ to_try = "non_drm"
    /\ loop_i = 1
    /\ last_error = ""
    /\ fetched = <<>>
    /\ rejected = <<>>
    /\ loc_result = [kind |-> "-", url |-> {}, via |-> "-"]

\* no call of the client has been made
GetTokenInit ==
    gc_call = [force_refresh |-> FALSE, before |-> "", extracted |-> <<>>,
               valid |-> {}, ok |-> TRUE, token |-> "", tested |-> 0,
               probed |-> <<>>]

\* _format_playlist_info before it is called on a collection with the
\* given items
InfoInit(items) ==
    /\ info_pc = "idle"
    /\ tracks = items
    /\ batch_failed = FALSE
    /\ track_list = <<>>
    /\ info_result = "-"

\* no task has called _download_with_ffmpeg
GatesInit == task_transcodes = [t \in Tasks |-> 0]

\* no caller has called resolve; the cache holds nothing or a token an
\* earlier get_client_id call has validated
CallersInit ==
    /\ c_pc = [c \in Callers |-> "idle"]
    /\ c_stage = [c \in Callers |-> "initial"]
    /\ c_attempt = [c \in Callers |-> 0]
    /\ c_left = [c \in Callers |-> <<>>]
    /\ validated = {client_id} \ {""}

(***************************************************************************)
(* SoundCloudClient._get_tracks_by_ids: the batch lookup of tracks by id.  *)
(***************************************************************************)
\* a list of n distinct track ids
IdsUpTo(n) == [k \in 1..n |-> k]

\* _get_tracks_by_ids has not been called; track_ids holds n ids
BatchInit(n) ==
    /\ batch_pc = "idle"
    /\ track_ids = IdsUpTo(n)
    /\ batch_i = 0
    /\ all_tracks = {}
    /\ batch_sent = <<>>
    /\ batch_found = {}
    /\ batch_error = FALSE
    /\ batch_return = {}

\* what the tracks endpoint answers to one chunk request: a JSON list with
\* every track of the batch; a JSON object whose "collection" lacks the
\* first track of the batch; JSON that is neither a list nor an object; a
\* body that response.json() or track.get() fails on; an HTTP error
\* status (raise_for_status); a transport error
BatchAnswers == {"list", "collection", "neither", "malformed", "http_error",
                 "transport_error"}

\* the answers on which an exception is raised inside the try block
AnswerFails(answer) == answer \in {"malformed", "http_error", "transport_error"}

\* the ids of the tracks of an answer to the request for batch
AnswerIds(answer, batch) ==
    IF answer = "list" THEN {batch[k] : k \in 1..Len(batch)}
    ELSE IF answer = "collection" THEN {batch[k] : k \in 2..Len(batch)}
    ELSE {}

\* track_ids[i:i + BATCH_SIZE]
BatchAt(i) ==
    SubSeq(track_ids, i + 1,
           IF i + BATCH_SIZE < Len(track_ids) THEN i + BATCH_SIZE
           ELSE Len(track_ids))

\* _get_tracks_by_ids(track_ids) is called: an empty list returns {} at
\* once, otherwise get_client_id is awaited
CallGetTracksByIds ==
    /\ batch_pc = "idle"
    /\ batch_pc' = IF track_ids = <<>> THEN "returned" ELSE "token"
    /\ UNCHANGED <<track_ids, batch_i, all_tracks, batch_sent, batch_found,
                   batch_error, batch_return>>
    /\ UNCHANGED <<pvars, tvars, rvars, avars, gvars, lvars, ivars, xvars, cvars>>

\* client_id = await self.get_client_id(), before the try block: a token
\* starts the loop over the chunks, an exception of get_client_id leaves
\* _get_tracks_by_ids
BatchGetsToken(world) ==
    /\ batch_pc = "token"
    /\ LET got == GetClientId(client_id, FALSE, world) IN
        /\ client_id' = got.cache
        /\ batch_pc' = IF got.ok THEN "request" ELSE "raised"
    /\ UNCHANGED <<track_ids, batch_i, all_tracks, batch_sent, batch_found,
                   batch_error, batch_return>>
    /\ UNCHANGED <<environ, resolve_pc, attempt, params_client_id, responses,
                   refreshes, client_id_at_request, resolve_error>>
    /\ UNCHANGED <<pvars, tvars, avars, gvars, lvars, ivars, xvars, cvars>>

\* one pass of the loop over range(0, len(track_ids), BATCH_SIZE): the
\* batch is requested; an exception is caught by the handler, which returns
\* {}; otherwise the tracks of the answer are added to all_tracks, and
\* all_tracks is returned after the last chunk
BatchAnswered(answer) ==
    /\ batch_pc = "request"
    /\ LET batch == BatchAt(batch_i)
           ids == AnswerIds(answer, batch) IN
        /\ batch_sent' = Append(batch_sent, batch)
        /\ IF AnswerFails(answer)
           THEN /\ batch_error' = TRUE
                /\ batch_pc' = "returned"
                /\ batch_return' = {}
                /\ UNCHANGED <<batch_i, all_tracks, batch_found>>
           ELSE /\ all_tracks' = all_tracks \cup ids
                /\ batch_found' = batch_found \cup ids
                /\ batch_i' = batch_i + BATCH_SIZE
                /\ IF batch_i + BATCH_SIZE < Len(track_ids)
                   THEN UNCHANGED <<batch_pc, batch_return>>
                   ELSE /\ batch_pc' = "returned"
                        /\ batch_return' = all_tracks \cup ids
                /\ UNCHANGED batch_error
    /\ UNCHANGED track_ids
    /\ UNCHANGED <<pvars, tvars, rvars, avars, gvars, lvars, ivars, xvars, cvars>>

\* no call of the client is in progress
CallsInit ==
    /\ GetTokenInit
    /\ LocateInit(<<>>, FALSE)
    /\ InfoInit(<<>>)
    /\ GatesInit
    /\ CallersInit
    /\ BatchInit(0)

\* the client before a resolve call, with the given environment variable
\* and cached token
ResolveInit(env, cached) ==
    /\ environ = env
    /\ client_id = cached
    /\ resolve_pc = "idle"
    /\ attempt = 0
    /\ params_client_id = ""
    /\ responses = <<>>
    /\ refreshes = 0
    /\ client_id_at_request = ""
    /\ resolve_error = ""

Init ==
    /\ \E n \in TrackCounts : PackagerInit(n)
    /\ TranscodeInit
    /\ AssemblyInit
    /\ ResolveInit("", "")
    /\ CallsInit

Next ==
    \/ \E r \in Requests : Start(r)
    \/ \E t \in Tasks : Acquire(t)
    \/ \E t \in Tasks, f \in Fates : FinishTask(t, f)
    \/ \E r \in Requests : TakeCompleted(r)
    \/ \E r \in Requests : ResumeAfterEntry(r)
    \/ \E r \in Requests : FinalFlush(r)
    \/ \E r \in Requests : Conclude(r)

Spec == Init /\ [][Next]_vars

(***************************************************************************)
(* Specification of the packager with a consumer that may stop iterating   *)
(* early (one task less than in Spec).                                     *)
(***************************************************************************)
InitConsumer ==
    /\ \E n \in TrackCounts :
          /\ SumTo(n, NumRequests) <= MaxTracks - 1
          /\ PackagerInit(n)
    /\ TranscodeInit
    /\ AssemblyInit
    /\ ResolveInit("", "")
    /\ CallsInit

NextConsumer ==
    \/ Next
    \/ \E r \in Requests : Aclose(r)

SpecConsumer == InitConsumer /\ [][NextConsumer]_vars

(***************************************************************************)
(* Specification of the packager with both gates: the item tasks run       *)
(* their transcodes under the transcode gate. The event loop runs every    *)
(* coroutine that is ready, the waiters of a semaphore are woken when a    *)
(* permit is released, every network and encoder step ends and the         *)
(* consumer keeps iterating: a step that can be taken is taken.            *)
(***************************************************************************)
InitGates == Init

NextGates ==
    \/ \E r \in Requests : Start(r)
    \/ \E t \in Tasks : Acquire(t)
    \/ \E t \in Tasks : TaskCallsFfmpeg(t)
    \/ \E t \in Tasks : TaskEntersFfmpeg(t)
    \/ \E t \in Tasks : TaskLeavesFfmpeg(t)
    \/ \E t \in Tasks : TaskReturns(t)
    \/ \E r \in Requests : TakeCompleted(r)
    \/ \E r \in Requests : ResumeAfterEntry(r)
    \/ \E r \in Requests : FinalFlush(r)
    \/ \E r \in Requests : Conclude(r)

SpecGates == InitGates /\ [][NextGates]_vars /\ WF_vars(NextGates)

(***************************************************************************)
(* Specification of the packager with both gates and item tasks whose      *)
(* transcode may raise.                                                    *)
(***************************************************************************)
InitPermits == Init

NextPermits ==
    \/ NextGates
    \/ \E t \in Tasks : TaskRaises(t)

SpecPermits == InitPermits /\ [][NextPermits]_vars

(***************************************************************************)
(* Specification of the transcode jobs.                                    *)
(***************************************************************************)
InitTranscode ==
    /\ PackagerInit([r \in Requests |-> 0])
    /\ TranscodeInit
    /\ AssemblyInit
    /\ ResolveInit("", "")
    /\ CallsInit

NextTranscode ==
    \/ \E j \in Jobs, url \in Urls, exists \in BOOLEAN : StartJob(j, url, exists)
    \/ \E j \in Jobs : EnterFfmpeg(j)
    \/ \E j \in Jobs, run \in EncoderRuns : FirstEncoderExits(j, run)
    \/ \E j \in Jobs, status \in FetchStatuses, content \in Contents :
          ManifestFetched(j, status, content)
    \/ \E j \in Jobs, run \in EncoderRuns : SecondEncoderExits(j, run)

SpecTranscode == InitTranscode /\ [][NextTranscode]_vars

(***************************************************************************)
(* Specification of the encoder processes: transcode jobs next to          *)
(* streaming requests.                                                     *)
(***************************************************************************)
\* the exit codes of an encoder process
ExitCodes == {0, 1}

InitEncoders == InitTranscode

NextEncoders ==
    \/ NextTranscode
    \/ \E s \in Jobs : StartStream(s)
    \/ \E s \in Jobs, code \in ExitCodes : StreamExits(s, code)
    \/ \E s \in Jobs : AbandonStream(s)
    \/ \E s \in Jobs, code \in ExitCodes : OrphanExits(s, code)

SpecEncoders == InitEncoders /\ [][NextEncoders]_vars

(***************************************************************************)
(* Specification of the item assemblies over the transcode jobs.           *)
(***************************************************************************)
InitAssembly == InitTranscode

NextAssembly ==
    \/ \E a \in Assemblies, located \in LocateAnswers : BeginItem(a, located)
    \/ \E a \in Assemblies, tag \in TagAnswers : ItemTranscodeReturns(a, tag)
    \/ \E a \in Assemblies, located \in LocateAnswers, attach_metadata \in BOOLEAN :
          BeginSingle(a, located, attach_metadata)
    \/ \E a \in Assemblies, tag \in TagAnswers : BufferedTranscodeReturns(a, tag)
    \/ \E a \in Assemblies : FinishDelivery(a)
    \/ \E a \in Assemblies : AbandonDelivery(a)
    \/ \E a \in Assemblies : StreamingBegins(a)
    \/ \E a \in Assemblies, n \in ChunkSizes : StreamYields(a, n)
    \/ \E a \in Assemblies, code \in ExitCodes : StreamingExits(a, code)
    \/ \E a \in Assemblies : StreamingAbandoned(a)
    \/ \E s \in Assemblies, code \in ExitCodes : OrphanExits(s, code)
    \/ \E j \in Assemblies : EnterFfmpeg(j)
    \/ \E j \in Assemblies, run \in EncoderRuns : FirstEncoderExits(j, run)
    \/ \E j \in Assemblies, status \in FetchStatuses, content \in Contents :
          ManifestFetched(j, status, content)
    \/ \E j \in Assemblies, run \in EncoderRuns : SecondEncoderExits(j, run)

SpecAssembly == InitAssembly /\ [][NextAssembly]_vars

(***************************************************************************)
(* Specification of a resolve call.                                        *)
(***************************************************************************)
\* the cache is empty or holds a token validated by an earlier call
InitResolve ==
    /\ PackagerInit([r \in Requests |-> 0])
    /\ TranscodeInit
    /\ AssemblyInit
    /\ \E env \in {"", EnvToken}, cached \in AllTokens \cup {""} :
          ResolveInit(env, cached)
    /\ CallsInit

NextResolve ==
    \/ CallResolve
    \/ \E world \in TokenWorlds : GetToken(world)
    \/ \E world \in TokenWorlds : GetTokenAgain(world)
    \/ \E answer \in ResolveAnswers : SendRequest(answer)
    \/ \E world \in TokenWorlds : Refresh(world)

SpecResolve == InitResolve /\ [][NextResolve]_vars

(***************************************************************************)
(* Specification of get_client_id calls on one client.                     *)
(***************************************************************************)
InitGetToken == InitResolve

NextGetToken ==
    \E force_refresh \in BOOLEAN, world \in TokenWorlds :
        CallGetClientId(force_refresh, world)

SpecGetToken == InitGetToken /\ [][NextGetToken]_vars

(***************************************************************************)
(* Specification of concurrent resolve calls on one client.                *)
(***************************************************************************)
InitCallers == InitResolve

NextCallers ==
    \/ \E c \in Callers, extracted \in ExtractedLists : CallerResolves(c, extracted)
    \/ \E c \in Callers, passes \in BOOLEAN, extracted \in ExtractedLists :
          CallerProbes(c, passes, extracted)
    \/ \E c \in Callers, answer \in ResolveAnswers, extracted \in ExtractedLists :
          CallerGetsAnswer(c, answer, extracted)

SpecCallers == InitCallers /\ [][NextCallers]_vars

(***************************************************************************)
(* Specification of a batch lookup, on a client whose cache holds a token  *)
(* or none (a new client, or one whose token another call has cleared).    *)
(***************************************************************************)
InitBatch ==
    /\ PackagerInit([r \in Requests |-> 0])
    /\ TranscodeInit
    /\ AssemblyInit
    /\ \E env \in {"", EnvToken}, cached \in {"", CLIENT_IDS[1]} :
          ResolveInit(env, cached)
    /\ GetTokenInit
    /\ LocateInit(<<>>, FALSE)
    /\ InfoInit(<<>>)
    /\ GatesInit
    /\ CallersInit
    /\ \E n \in 0..MaxIds : BatchInit(n)

NextBatch ==
    \/ CallGetTracksByIds
    \/ \E world \in TokenWorlds : BatchGetsToken(world)
    \/ \E answer \in BatchAnswers : BatchAnswered(answer)

SpecBatch == InitBatch /\ [][NextBatch]_vars

(***************************************************************************)
(* Specification of a get_stream_url call.                                 *)
(***************************************************************************)
InitLocate ==
    /\ PackagerInit([r \in Requests |-> 0])
    /\ TranscodeInit
    /\ AssemblyInit
    /\ ResolveInit("", "")
    /\ GetTokenInit
    /\ InfoInit(<<>>)
    /\ GatesInit
    /\ CallersInit
    /\ BatchInit(0)
    /\ \E tcs \in SeqsUpTo(Descriptors, MaxTranscodings), has_id \in BOOLEAN :
          LocateInit(tcs, has_id)

NextLocate ==
    \/ \E entry_ok \in BOOLEAN : CallGetStreamUrl(entry_ok)
    \/ \E answer \in LocateFetches : TryTranscoding(answer)
    \/ \E answer \in LocateFetches : TryAlternative(answer)

SpecLocate == InitLocate /\ [][NextLocate]_vars

(***************************************************************************)
(* Specification of a _format_playlist_info call.                          *)
(***************************************************************************)
InitInfo ==
    /\ PackagerInit([r \in Requests |-> 0])
    /\ TranscodeInit
    /\ AssemblyInit
    /\ ResolveInit("", "")
    /\ GetTokenInit
    /\ LocateInit(<<>>, FALSE)
    /\ GatesInit
    /\ CallersInit
    /\ BatchInit(0)
    /\ \E items \in SeqsUpTo(RawTracks, MaxItems) : InfoInit(items)

NextInfo ==
    \/ \E batch_ok \in BOOLEAN : CallFormatPlaylistInfo(batch_ok)
    \/ \E batch \in Lookups, individual \in Lookups : FormatTrack(batch, individual)
    \/ ReturnPlaylistInfo

SpecInfo == InitInfo /\ [][NextInfo]_vars

(***************************************************************************)
(* Properties of the packager.                                             *)
(***************************************************************************)
\* the tasks of request r
TasksOf(r) == {t \in Tasks : t[1] = r /\ t[2] < total_tracks[r]}

\* the chunk sequence of request r has ended (exhausted or failed)
Finished(r) == gen_pc[r] \in {"ended", "failed"}

RECURSIVE Flatten(_)
\* the concatenation of a sequence of chunks
Flatten(chunks) ==
    IF chunks = <<>> THEN <<>> ELSE Head(chunks) \o Flatten(Tail(chunks))

\* the bytes delivered to the caller of request r so far
Delivered(r) == Flatten(emitted[r])

IsEntry(x) == x # CentralDirectory

\* the entries (track indices) of an archive byte sequence, in order
EntriesOf(bytes) == SelectSeq(bytes, IsEntry)

RECURSIVE Ascending(_, _)
\* the indices from..n-1 that are in keep, in increasing order
Ascending(from, keep) ==
    IF keep = {} THEN <<>>
    ELSE LET m == CHOOSE x \in keep : \A y \in keep : x <= y
         IN <<m>> \o Ascending(m + 1, keep \ {m})

\* the indices of the tracks of request r whose class is in classes
IndicesWith(r, classes) == {t[2] : t \in {u \in TasksOf(r) : fate[u] \in classes}}

\* C1: when every item of a collection succeeds, the finished archive (the
\* bytes delivered when the chunk sequence has ended) holds the N entries
\* in the original track order, whatever the order of completion, and the
\* operation ends without error
C1_ArchiveKeepsOriginalOrder ==
    \A r \in Requests :
        (Finished(r) /\ \A t \in TasksOf(r) : fate[t] = "ok")
        => /\ gen_pc[r] = "ended"
           /\ EntriesOf(Delivered(r)) = [k \in 1..total_tracks[r] |-> k - 1]

\* a collection of three items, completed in the order 2, 1, 0, has ended
C1_Witness ==
    /\ gen_pc[1] = "ended"
    /\ total_tracks[1] = 3
    /\ done_queue[1] = <<2, 1, 0>>
    /\ \A t \in TasksOf(1) : fate[t] = "ok"
    /\ EntriesOf(Delivered(1)) = <<0, 1, 2>>

\* C2: when exactly one item of a collection of two or more is
\* DRM-protected and all the others succeed, the finished archive holds the
\* N-1 other entries in the original order and the operation succeeds
C2_OneDrmItemIsOmitted ==
    \A r \in Requests :
        (/\ Finished(r)
         /\ total_tracks[r] >= 2
         /\ Cardinality(IndicesWith(r, {"drm"})) = 1
         /\ IndicesWith(r, {"failed"}) = {})
        => /\ gen_pc[r] = "ended"
           /\ EntriesOf(Delivered(r)) = Ascending(0, IndicesWith(r, {"ok"}))

\* C3: when the chunk sequence has ended, every item whose assembly
\* succeeded is in the archive, whichever items were skipped
C3_SkippedItemNeverBlocks ==
    \A r \in Requests :
        Finished(r)
        => \A t \in TasksOf(r) :
              result[t] # None
              => \E k \in 1..Len(zip_path[r]) : zip_path[r][k] = t[2]

\* C4: when every item of a collection fails or is skipped, the operation
\* fails with NoItemsSucceeded and nothing but the empty archive shell has
\* been delivered
C4_AllFailedRaisesAndEmitsNoEntry ==
    \A r \in Requests :
        (/\ gen_pc[r] # "idle"
         /\ \A t \in TasksOf(r) : task_pc[t] = "done" /\ fate[t] # "ok")
        => /\ gen_pc[r] # "ended"
           /\ EntriesOf(Delivered(r)) = <<>>
           /\ Len(Delivered(r)) <= 1

\* a collection of two failed items (one of them DRM-protected) has failed
\* after delivering the empty shell
C4_Witness ==
    /\ gen_pc[1] = "failed"
    /\ total_tracks[1] = 2
    /\ fate[<<1, 0>>] = "drm"
    /\ fate[<<1, 1>>] = "failed"
    /\ Delivered(1) = <<CentralDirectory>>

\* C5: the operation fails with NoItemsSucceeded only when no item
\* assembly returned a finished result
C5_FailsOnlyWhenNoItemSucceeded ==
    \A r \in Requests :
        gen_pc[r] = "failed" => \A t \in TasksOf(r) : result[t] = None

InGate == {t \in Tasks : task_pc[t] = "running"}

\* C10: at most MAX_CONCURRENT_DOWNLOADS item tasks are inside the download
\* gate at any time, over all the requests sharing the downloader (the
\* permits left are those not held), while every task of a started
\* collection has been created, however many there are
C10_DownloadGateCeiling ==
    /\ Cardinality(InGate) <= MAX_CONCURRENT_DOWNLOADS
    /\ download_semaphore = MAX_CONCURRENT_DOWNLOADS - Cardinality(InGate)
    /\ \A r \in Requests :
          gen_pc[r] # "idle" => \A t \in TasksOf(r) : task_pc[t] # "none"

\* the gate is full with tasks of two requests and a submitted task waits
C10_Witness ==
    /\ Cardinality(InGate) = MAX_CONCURRENT_DOWNLOADS
    /\ download_semaphore = 0
    /\ \E t \in InGate : t[1] = 1
    /\ \E t \in InGate : t[1] = 2
    /\ \E t \in Tasks : task_pc[t] = "waiting"

(***************************************************************************)
(* Properties of the transcode job.                                        *)
(***************************************************************************)
\* C7: a transcode job that reports success left an output file of at
\* least MIN_FILE_SIZE bytes: an output below the threshold is never
\* reported as success, after the first encoder or after the retry,
\* whatever the exit code
C7_UndersizedOutputIsNeverSuccess ==
    \A j \in Jobs :
        (job_pc[j] = "done" /\ job_result[j] = "True")
        => /\ output_path[j].exists
           /\ output_path[j].size >= MIN_FILE_SIZE

\* a job whose only encoder exited 0 leaving 100 bytes and a job whose
\* second encoder exited 0 leaving 100 bytes have both reported failure
C7_Witness ==
    /\ job_pc[1] = "done" /\ encoder_runs[1] = 1 /\ returncode[1] = 0
    /\ output_path[1] = [exists |-> TRUE, size |-> 100]
    /\ job_result[1] = "False"
    /\ job_pc[2] = "done" /\ encoder_runs[2] = 2 /\ returncode[2] = 0
    /\ output_path[2] = [exists |-> TRUE, size |-> 100]
    /\ job_result[2] = "False"

(***************************************************************************)
(* Properties of resolve.                                                  *)
(***************************************************************************)
\* the resolve endpoint has answered this call, with a 401 each time
OnlyUnauthorized ==
    /\ responses # <<>>
    /\ \A k \in 1..Len(responses) : responses[k] = "401"

\* C8: while the resolve endpoint answers every attempt of a call with a
\* 401, the call makes at most 2 attempts and forces at most one refresh,
\* and it ends only by failing with the 401 error after exactly 2 attempts
C8_AlwaysUnauthorizedMakesTwoAttempts ==
    OnlyUnauthorized
    => /\ Len(responses) <= 2
       /\ refreshes <= 1
       /\ resolve_pc # "returned"
       /\ resolve_pc = "failed"
          => /\ Len(responses) = 2
             /\ resolve_error = "unauthorized"

\* the call has failed after two 401 answers, the second to a request made
\* with the refreshed token
C8_Witness ==
    /\ resolve_pc = "failed"
    /\ responses = <<"401", "401">>
    /\ refreshes = 1
    /\ client_id # ""
    /\ params_client_id = client_id

\* C9: an answer that is a non-auth HTTP error or a transport error ends
\* the call at once: it is the last answer, the call has failed with that
\* error, no refresh followed it and the cached token is the one the
\* request was sent under; as the first answer it leaves exactly one
\* attempt and no refresh
C9_OtherErrorFailsImmediately ==
    \A k \in 1..Len(responses) :
        responses[k] \in {"http_error", "transport_error"}
        => /\ k = Len(responses)
           /\ resolve_pc = "failed"
           /\ resolve_error = (IF responses[k] = "http_error" THEN "http"
                               ELSE "transport")
           /\ refreshes = k - 1
           /\ client_id = client_id_at_request

\* the call has failed on a non-auth HTTP error to its first request, the
\* cached token still in place
C9_Witness ==
    /\ resolve_pc = "failed"
    /\ responses = <<"http_error">>
    /\ refreshes = 0
    /\ client_id # ""
    /\ client_id = client_id_at_request

(***************************************************************************)
(* Properties of the encoder processes.                                    *)
(***************************************************************************)
\* the number of external encoder processes that are running
RunningEncoders ==
    Cardinality({j \in Jobs : job_pc[j] \in {"encoding", "encoding_retry"}})
    + Cardinality({s \in Jobs : stream_pc[s] \in {"running", "orphan"}})

\* C11: at every moment at most MAX_CONCURRENT_FFMPEG external encoder
\* processes run, whatever mix of buffered jobs (retries included) and
\* streaming requests is in progress.
C11_EncoderCeiling == RunningEncoders <= MAX_CONCURRENT_FFMPEG

(***************************************************************************)
(* Properties of the item assemblies.                                      *)
(***************************************************************************)
\* C12: once an item assembly has ended (success, validation failure,
\* exception, or interrupted delivery of the finished file), neither its
\* transcode sink nor the local manifest copy of the retry exists.
C12_NoTemporaryFileSurvives ==
    \A a \in Assemblies :
        asm_pc[a] = "done" => ~output_path[a].exists /\ ~temp_m3u8[a]

\* the first encoder of job j wrote a DRM indicator to stderr
FirstStderrHasDrm(j) == encoder_runs[j] >= 1 /\ drm_error[j]

Fatal(a) == asm_pc[a] = "done" /\ asm_outcome[a] \in {"raised", "raised_drm"}

\* C15: in the single-item context a locate failure or a transcode failure
\* (DRM, encoder failure, undersized output) makes download_track fail: a
\* response is returned only over a validated file, the call never ends as
\* a skip, and an encoder failure is an error of the call.
C15_SingleItemFailureIsFatal ==
    \A a \in Assemblies :
        asm_kind[a] \in {"buffered", "streaming"} =>
            /\ asm_outcome[a] # "None"
            /\ asm_pc[a] = "delivering" =>
                  /\ job_result[a] = "True"
                  /\ ValidateFileSize(output_path[a], MIN_FILE_SIZE)
            /\ asm_pc[a] = "done" /\ job_result[a] \in {"False", "drm_error", "error"}
                  => Fatal(a)
            /\ asm_pc[a] = "done" /\ asm_outcome[a] # "interrupted"
                  /\ stream_pc[a] = "exited" /\ stream_returncode[a] # 0
                  => Fatal(a)

(***************************************************************************)
(* Further properties of the packager.                                     *)
(***************************************************************************)
\* C13: the backing archive file never survives the end of the chunk
\* sequence: it is gone once the sequence is exhausted, once the operation
\* has failed (also with no item succeeded), and once the consumer has
\* stopped iterating early; until then it exists.
C13_ArchiveFileRemovedAtEnd ==
    \A r \in Requests :
        /\ gen_pc[r] \in {"ended", "failed", "closed"} => ~zip_exists[r]
        /\ gen_pc[r] \in {"await", "yield_entry", "yield_final"} => zip_exists[r]

\* C13 witness: one request was abandoned after its first chunk while an
\* entry was still to come, another has failed with no item written; the
\* backing files of both are gone.
C13_Witness ==
    /\ gen_pc[1] = "closed" /\ emitted[1] # <<>> /\ tracks_added[1] < total_tracks[1]
    /\ gen_pc[2] = "failed" /\ tracks_added[2] = 0
    /\ ~zip_exists[1] /\ ~zip_exists[2]

\* the entries written to the backing file of request r, in order
Written(r) == SelectSeq(zip_path[r], LAMBDA x : x # CentralDirectory)

\* C19: in every reachable state the entries of the archive have been
\* written in strictly increasing original index, and an entry is in the
\* archive only if every lower index is too (the entries are 0, 1, ...,
\* k-1 in this order).
C19_WrittenInIndexOrder ==
    \A r \in Requests :
        LET w == Written(r) IN
        \A k \in 1..Len(w) :
            /\ k > 1 => w[k - 1] < w[k]
            /\ \A i \in 0..(w[k] - 1) : \E m \in 1..(k - 1) : w[m] = i

\* C19 witness: three tasks finished in the order 2, 1, 0 and the three
\* entries have been written.
C19_Witness ==
    \E r \in Requests :
        /\ Len(done_queue[r]) >= 3
        /\ SubSeq(done_queue[r], 1, 3) = <<2, 1, 0>>
        /\ Len(Written(r)) = 3

(***************************************************************************)
(* Further properties of the transcode jobs.                               *)
(***************************************************************************)
\* C20: a transcode job invokes the encoder at most twice; the second
\* invocation (on the local copy of the fetched manifest) is started only
\* after the first exited non-zero without a DRM indicator, and whatever
\* the second does ends the job: a failure of the second makes the job
\* fail, and no third encoder is started.
C20_AtMostOneRetry ==
    /\ [](\A j \in Jobs :
            /\ encoder_runs[j] <= 2
            /\ job_pc[j] \in {"fetching", "encoding_retry"} =>
                  returncode[j] # 0 /\ ~drm_error[j]
            /\ encoder_runs[j] = 2 => ~drm_error[j]
            /\ job_pc[j] = "encoding_retry" <=> temp_m3u8[j]
            /\ job_pc[j] = "done" /\ encoder_runs[j] = 2
                  /\ (returncode[j] # 0 \/ retry_drm_error[j])
                  => job_result[j] = "error")
    /\ [][\A j \in Jobs :
            /\ encoder_runs'[j] = 2 /\ encoder_runs[j] # 2 =>
                  job_pc[j] = "fetching" /\ encoder_runs[j] = 1
            /\ job_pc[j] = "encoding_retry" /\ job_pc'[j] # "encoding_retry" =>
                  job_pc'[j] = "done"
            /\ job_pc[j] = "done" => encoder_runs'[j] <= encoder_runs[j]]_vars

\* C20 witness: a job whose first encoder exited non-zero without a DRM
\* indicator ran a second encoder, which failed, and the job has failed
\* after two invocations.
C20_Witness ==
    \E j \in Jobs :
        /\ job_pc[j] = "done" /\ encoder_runs[j] = 2
        /\ ~drm_error[j] /\ returncode[j] # 0
        /\ job_result[j] = "error"

(***************************************************************************)
(* Properties of get_client_id.                                            *)
(***************************************************************************)
\* a get_client_id call has been made and went past the cache
Probing == gc_call.probed # <<>>

\* C17: get_client_id fails exactly when no candidate passes the probe,
\* and the number its error message states is the number of candidate
\* tokens probed in the call, an invalid environment override included.
C17_ErrorCountsProbedCandidates ==
    Probing =>
        /\ ~gc_call.ok <=>
              \A k \in 1..Len(gc_call.probed) : gc_call.probed[k] \notin gc_call.valid
        /\ ~gc_call.ok => gc_call.tested = Len(gc_call.probed)

(***************************************************************************)
(* Properties of get_stream_url.                                           *)
(***************************************************************************)
\* C16: a stream target returned by get_stream_url, from a transcoding
\* candidate or from the secondary strategy, has a manifest URL without
\* the encryption marker.
C16_ReturnedManifestIsUnprotected ==
    loc_result.kind = "url" =>
        /\ ~IsDrmProtectedUrl(loc_result.url)
        /\ "cenc" \notin loc_result.url

\* C16 witness: every candidate fetched gave a manifest URL with the
\* marker (the DRM exception is kept) and the secondary strategy returned
\* an unprotected manifest URL.
C16_Witness ==
    /\ loc_result.kind = "url" /\ loc_result.via = "alternative"
    /\ Len(fetched) >= 2 /\ last_error = "drm"

\* the positions in a list of positions
Positions(list) == {list[k] : k \in 1..Len(list)}

\* the preference list of the call: the list transcodings_to_try as the
\* classification leaves it
PreferenceList ==
    IF Classified(FALSE) # <<>> THEN Classified(FALSE) ELSE Classified(TRUE)

\* the loop is over and the secondary strategy has been tried
AlternativeTried == loc_pc = "done" /\ loc_result.via = "alternative"

\* C22: the candidates of the preference list are tried one after another
\* in order until one yields an unprotected manifest URL: the signed URLs
\* are fetched in list order, and when the secondary strategy is reached
\* every candidate of the list (that has a URL) has been tried.
C22_NoCandidateLeftUntried ==
    /\ \A i, j \in 1..Len(fetched) : i < j => fetched[i] < fetched[j]
    /\ Positions(fetched) \subseteq Positions(PreferenceList)
    /\ AlternativeTried =>
          \A k \in Positions(PreferenceList) :
              transcodings[k].url # {} => k \in Positions(fetched)

\* the classification of a descriptor: protected when the encryption
\* marker is in its URL or in its declared protocol
Protected(tc) == "cenc" \in tc.url \/ "cenc" \in tc.protocol

\* C23: protected candidates are tried only when the track has no
\* unprotected candidate: when a streamable unprotected descriptor
\* exists, the signed URL of no protected descriptor is fetched.
C23_ProtectedOnlyWithoutUnprotected ==
    (\E k \in 1..Len(transcodings) :
        Streamable(transcodings[k]) /\ ~Protected(transcodings[k]))
    => \A k \in Positions(fetched) : ~Protected(transcodings[k])

\* C24: a descriptor is classified as protected when the encryption
\* marker is in its URL or in its declared protocol: once the call has
\* classified, no descriptor with the marker (be it only in the protocol)
\* is among the unprotected candidates, and every streamable descriptor
\* with the marker is among the protected ones.
C24_MarkerInProtocolIsProtected ==
    loc_pc = "loop" =>
        /\ \A k \in Positions(non_drm_transcodings) : ~Protected(transcodings[k])
        /\ \A k \in 1..Len(transcodings) :
              Streamable(transcodings[k]) /\ Protected(transcodings[k])
              /\ k \notin Positions(rejected)
              => k \in Positions(drm_transcodings)

\* C25: when every candidate that was tried was rejected because its
\* manifest URL carried the encryption marker (none failed otherwise, none
\* lacks a URL) and the secondary strategy gave nothing usable, the call
\* fails with the DRM-specific error, for any number of candidates.
C25_AllRejectedFailsWithDrmError ==
    ( /\ AlternativeTried
      /\ loc_result.kind # "url"
      /\ fetched # <<>>
      /\ rejected = fetched
      /\ \A k \in Positions(PreferenceList) : transcodings[k].url # {} )
    => loc_result.kind = "error_drm"

BodyHasDrm(j) == retry_drm_error[j] /\ encoder_runs[j] = 1

\* C21: when the manifest body fetched during the retry contains a DRM
\* indicator, the job has failed with the DRM-specific error, not the
\* generic transcode failure, and no second encoder was started.
C21_DrmInBodyFailsWithDrmError ==
    \A j \in Jobs :
        BodyHasDrm(j) =>
            /\ job_pc[j] = "done"
            /\ job_result[j] = "drm_error"
            /\ encoder_runs[j] = 1

(***************************************************************************)
(* Further properties of get_client_id.                                    *)
(***************************************************************************)
\* C26: get_client_id(force_refresh=False) on a cached token returns that
\* token without probing anything and leaves the cache as it is; a call
\* changes the cache only to a candidate that passed its probe, so a call
\* that fails leaves the cache exactly as it was.
C26_CacheChangesOnlyOnValidation ==
    [][ /\ (client_id # "" /\ ~gc_call'.force_refresh) =>
              /\ gc_call'.ok /\ gc_call'.token = client_id
              /\ gc_call'.probed = <<>>
              /\ client_id' = client_id
        /\ client_id' # client_id =>
              /\ gc_call'.ok /\ client_id' = gc_call'.token
              /\ client_id' \in gc_call'.valid
        /\ ~gc_call'.ok => client_id' = client_id ]_vars

\* C26 witness: a forced refresh on a cached token has failed after
\* probing every candidate, and the cache still holds that token.
C26_Witness ==
    /\ gc_call.force_refresh /\ ~gc_call.ok
    /\ Len(gc_call.probed) >= Len(CLIENT_IDS)
    /\ gc_call.before # "" /\ client_id = gc_call.before

\* C27: without a valid environment override, a get_client_id call that
\* goes past the cache returns and caches the first candidate that passes
\* the probe, in the order extracted candidates then static list, and
\* probes no candidate after it.
C27_FirstPassingCandidateInOrder ==
    LET candidates == gc_call.extracted \o CLIENT_IDS
        skip == IF environ # "" THEN 1 ELSE 0 IN
    (Probing /\ (environ = "" \/ environ \notin gc_call.valid)) =>
        \A i \in 1..Len(candidates) :
            ( /\ candidates[i] \in gc_call.valid
              /\ \A j \in 1..(i - 1) : candidates[j] \notin gc_call.valid )
            => /\ gc_call.ok
               /\ gc_call.token = candidates[i]
               /\ client_id = candidates[i]
               /\ gc_call.probed =
                     SubSeq(<<environ>>, 1, skip) \o SubSeq(candidates, 1, i)

\* C27 witness: the environment override and the extracted candidate
\* failed the probe, the second token of the static list was the first to
\* pass and is cached; the tokens after it were not probed.
C27_Witness ==
    /\ Probing /\ environ # "" /\ environ \notin gc_call.valid
    /\ gc_call.extracted # <<>>
    /\ gc_call.ok /\ gc_call.token = CLIENT_IDS[2] /\ client_id = CLIENT_IDS[2]
    /\ CLIENT_IDS[3] \in gc_call.valid
    /\ Len(gc_call.probed) = 4

(***************************************************************************)
(* Further properties of resolve.                                          *)
(***************************************************************************)
\* the call has ended in the 401 error, the last answer being a 401 to a
\* request made with the token params_client_id
EndedUnauthorized ==
    /\ resolve_pc = "failed" /\ resolve_error = "unauthorized"
    /\ responses # <<>> /\ responses[Len(responses)] = "401"

\* C28: a 401 answer of the resolve endpoint invalidates the cached token:
\* after a resolve call that has ended in the 401 error the cache does not
\* hold the token the endpoint has just rejected.
C28_RejectedTokenIsNotCached ==
    EndedUnauthorized => client_id = "" \/ client_id # params_client_id

\* C29: when the forced refresh that follows a 401 fails (the cache stays
\* empty), resolve has failed and made no further request: there are as
\* many answers as there were before the refresh.
C29_FailedRefreshEndsResolve ==
    (refreshes >= 1 /\ client_id = "") =>
        /\ resolve_pc = "failed"
        /\ Len(responses) = refreshes

(***************************************************************************)
(* Properties of the chunk sequence of the packager.                       *)
(***************************************************************************)
\* the offset in the archive file at which the k-th chunk of request r
\* starts if the chunks are laid end to end
OffsetOf(r, k) == Len(Flatten(SubSeq(emitted[r], 1, k - 1)))

\* C30: the chunks are contiguous, non-overlapping ranges of the backing
\* archive file (each chunk is not empty and is the file's content from
\* the end of the chunk before), the emitted offset last_zip_size never
\* decreases and stays within what was emitted, and when the chunk
\* sequence ends without error the chunks together are the whole file,
\* the last chunk ending with the central directory written at close.
C30_ChunksArePrefixOfArchive ==
    /\ [](\A r \in Requests :
            /\ \A k \in 1..Len(emitted[r]) :
                  /\ emitted[r][k] # <<>>
                  /\ OffsetOf(r, k) + Len(emitted[r][k]) <= Len(zip_path[r])
                  /\ emitted[r][k] =
                        SubSeq(zip_path[r], OffsetOf(r, k) + 1,
                               OffsetOf(r, k) + Len(emitted[r][k]))
            /\ last_zip_size[r] <= Len(Delivered(r))
            /\ gen_pc[r] = "ended" =>
                  /\ Delivered(r) = zip_path[r]
                  /\ emitted[r] # <<>>
                  /\ LET final == emitted[r][Len(emitted[r])] IN
                        final[Len(final)] = CentralDirectory)
    /\ [][\A r \in Requests :
            /\ last_zip_size'[r] >= last_zip_size[r]
            /\ Len(emitted'[r]) >= Len(emitted[r])
            /\ SubSeq(emitted'[r], 1, Len(emitted[r])) = emitted[r]
            /\ SubSeq(zip_path'[r], 1, Len(zip_path[r])) = zip_path[r]]_vars

\* C30 witness: a collection of two items has ended after three chunks,
\* one per entry and the central directory.
C30_Witness ==
    /\ gen_pc[1] = "ended"
    /\ total_tracks[1] = 2
    /\ emitted[1] = <<<<0>>, <<1>>, <<CentralDirectory>>>>
    /\ zip_path[1] = <<0, 1, CentralDirectory>>

(***************************************************************************)
(* Properties of the archive-write critical section.                       *)
(***************************************************************************)
\* request r is inside `async with zip_lock` (writestr, flush, read and
\* yield of the new bytes): the generator is suspended in the yield
InCriticalSection(r) == gen_pc[r] = "yield_entry"

\* C31: for each backing archive file at most one execution of the
\* archive-write critical section is in progress, and zip_lock is held
\* exactly while it is: an entry is appended to the file only by a step
\* that enters the section with the lock free or continues it, each such
\* step appends one entry, and outside the section the lock is free.
C31_CriticalSectionIsExclusive ==
    /\ [](\A r \in Requests : zip_lock[r] <=> InCriticalSection(r))
    /\ [][\A r \in Requests :
            Len(EntriesOf(zip_path'[r])) # Len(EntriesOf(zip_path[r])) =>
                /\ Len(EntriesOf(zip_path'[r])) = Len(EntriesOf(zip_path[r])) + 1
                /\ zip_lock'[r] /\ InCriticalSection(r)']_vars

\* C31 witness: two requests are in the critical section of their own
\* archive file at once, each holding its own lock.
C31_Witness ==
    /\ InCriticalSection(1) /\ InCriticalSection(2)
    /\ zip_lock[1] /\ zip_lock[2]
    /\ zip_path[1] # <<>> /\ zip_path[2] # <<>>

(***************************************************************************)
(* Properties of the streaming output mode.                                *)
(***************************************************************************)
\* C33: in streaming output mode the transcode counts as success only if
\* the encoder exited with code 0 and the output delivered reaches
\* MIN_FILE_SIZE: a streaming download_track that has completed normally
\* has delivered at least MIN_FILE_SIZE bytes.
C33_StreamingSuccessIsSizeValidated ==
    \A a \in Assemblies :
        (asm_kind[a] = "streaming" /\ asm_pc[a] = "done"
         /\ asm_outcome[a] = "stream_completed")
        => /\ stream_returncode[a] = 0
           /\ stream_sent[a] >= MIN_FILE_SIZE

(***************************************************************************)
(* Properties of the two gates together.                                   *)
(***************************************************************************)
\* every request has ended and every task is done
AllEnded ==
    /\ \A r \in Requests : total_tracks[r] > 0 => Finished(r)
    /\ \A r \in Requests : \A t \in TasksOf(r) : task_pc[t] = "done"

\* C32: the two gates never deadlock: with every step that can be taken
\* eventually taken, every task gets its permits and finishes and the
\* chunk sequence of every request ends, whatever the number of
\* concurrent requests and items.
C32_GatesNeverDeadlock == <>AllEnded

\* C32 witness: both gates are exhausted and both have a waiter: three
\* tasks hold the download gate, two of them the transcode gate, the
\* third waits for it, and a fourth task waits for the download gate.
C32_Witness ==
    /\ download_semaphore = 0 /\ download_waiters # <<>>
    /\ ffmpeg_semaphore = 0 /\ ffmpeg_waiters # <<>>

(***************************************************************************)
(* Properties of concurrent resolve calls.                                 *)
(***************************************************************************)
\* the callers whose forced refresh (the get_client_id(force_refresh=True)
\* of the 401 handler) is in flight
Refreshing == {c \in Callers : c_pc[c] = "probing" /\ c_stage[c] = "refresh"}

\* C34: concurrent resolve calls that each get a 401 do not duplicate a
\* refresh in progress: at most one refresh of the shared token is in
\* flight at any time.
C34_SingleFlightRefresh == Cardinality(Refreshing) <= 1

\* C35: under any interleaving of concurrent calls the cached token is
\* empty or a token on which the probe has returned True in some earlier
\* get_client_id call.
C35_CacheHoldsOnlyValidatedTokens == client_id = "" \/ client_id \in validated

\* C35 witness: while the forced refresh of one caller is still probing,
\* the other caller's call has validated and cached a token that was not
\* in the cache before, and has returned.
C35_Witness ==
    /\ Refreshing # {}
    /\ \E c \in Callers : c_pc[c] = "returned"
    /\ client_id # "" /\ Cardinality(validated) >= 2

(***************************************************************************)
(* C36: the encoder is never invoked against a manifest URL that carries   *)
(* the encryption marker, on any download path. Every encoder process of   *)
(* an assembly (the first encoder of a transcode job of a buffered single  *)
(* download or of a collection item, and the encoder of a streaming        *)
(* download, running or left behind by its consumer) reads a manifest URL  *)
(* without the marker; the second encoder of a job (the retry) reads the   *)
(* local copy of the manifest of such a URL.                               *)
(***************************************************************************)
C36_EncoderNeverReadsMarkedUrl ==
    \A a \in Assemblies :
        /\ job_pc[a] \in {"encoding", "fetching", "encoding_retry"}
              => ~IsDrmProtectedUrl(m3u8_url[a])
        /\ job_pc[a] = "encoding_retry" => temp_m3u8[a]
        /\ (asm_kind[a] = "streaming" /\ stream_pc[a] \in {"running", "orphan"})
              => ~IsDrmProtectedUrl(m3u8_url[a])

\* C36: the encoder of a streaming download is running on the URL that
\* get_stream_url returned
C36_Witness ==
    \E a \in Assemblies :
        /\ asm_kind[a] = "streaming"
        /\ stream_pc[a] = "running"
        /\ m3u8_url[a] = {"https"}

(***************************************************************************)
(* Properties of the permits of the two gates.                             *)
(***************************************************************************)
\* the tasks inside the download gate's block
HoldingDownload ==
    {t \in Tasks : task_pc[t] \in {"running", "ffmpeg_waiting", "encoding"}}

\* the tasks inside the transcode gate's block
HoldingFfmpeg == {t \in Tasks : task_pc[t] = "encoding"}

\* C37: both gates release their slot on every exit path (success, skip,
\* exception): the permits missing from a gate are exactly those of the
\* tasks inside its block, so whenever no assembly and no transcode is in
\* progress the download gate has all MAX_CONCURRENT_DOWNLOADS permits and
\* the transcode gate all MAX_CONCURRENT_FFMPEG permits, and failed items
\* never shrink the capacity left to later items and requests.
C37_GatesGiveEveryPermitBack ==
    /\ download_semaphore + Cardinality(HoldingDownload) = MAX_CONCURRENT_DOWNLOADS
    /\ ffmpeg_semaphore + Cardinality(HoldingFfmpeg) = MAX_CONCURRENT_FFMPEG
    /\ (HoldingDownload = {} /\ HoldingFfmpeg = {})
          => /\ download_semaphore = MAX_CONCURRENT_DOWNLOADS
             /\ ffmpeg_semaphore = MAX_CONCURRENT_FFMPEG

\* C37 witness: every task is done, one after a transcode that raised,
\* one after a skip without any transcode and one with its bytes
C37_Witness ==
    /\ \A r \in Requests : \A t \in TasksOf(r) : task_pc[t] = "done"
    /\ \E t \in Tasks :
          task_pc[t] = "done" /\ task_transcodes[t] = 1 /\ fate[t] = "failed"
    /\ \E t \in Tasks :
          task_pc[t] = "done" /\ task_transcodes[t] = 0 /\ fate[t] = "failed"
    /\ \E t \in Tasks : task_pc[t] = "done" /\ fate[t] = "ok"

(***************************************************************************)
(* Properties of the packager's cursor.                                    *)
(***************************************************************************)
\* no index is written to the archive of request r twice
WrittenOnce(r) ==
    \A i, j \in 1..Len(Written(r)) : Written(r)[i] = Written(r)[j] => i = j

\* completed_tracks of request r holds no index below next_expected_idx
PendingNotBelowCursor(r) ==
    \A i \in completed_tracks[r] : i >= next_expected_idx[r]

\* C38 as stated: in the packager each original index is written to the
\* archive at most once, the pending map only ever holds indices greater
\* than or equal to the next expected index, and the number of entries
\* written always equals the next expected index.
C38_WrittenAlwaysEqualsCursor ==
    \A r \in Requests :
        /\ WrittenOnce(r)
        /\ PendingNotBelowCursor(r)
        /\ Len(Written(r)) = next_expected_idx[r]

\* C38 amended: each original index is written at most once, the pending
\* map only holds indices greater than or equal to the next expected
\* index, and the number of entries written equals the next expected index
\* except while the packager is suspended emitting the bytes of the entry
\* it has just written, where it is one more (the cursor advances when the
\* packager is resumed, and never if the consumer stops there).
C38_WrittenFollowsCursor ==
    \A r \in Requests :
        /\ WrittenOnce(r)
        /\ PendingNotBelowCursor(r)
        /\ tracks_added[r] = Len(Written(r))
        /\ gen_pc[r] = "yield_entry" =>
              Len(Written(r)) = next_expected_idx[r] + 1
        /\ gen_pc[r] \notin {"yield_entry", "closed"} =>
              Len(Written(r)) = next_expected_idx[r]
        /\ gen_pc[r] = "closed" =>
              Len(Written(r)) \in {next_expected_idx[r], next_expected_idx[r] + 1}

\* C38 witness: an entry was written and the cursor advanced while later
\* indices are pending behind an index that has not arrived
C38_Witness ==
    \E r \in Requests :
        /\ gen_pc[r] = "await"
        /\ next_expected_idx[r] = 1
        /\ Written(r) = <<0>>
        /\ 2 \in completed_tracks[r]

(***************************************************************************)
(* Properties of the repeated transcode of a collection item.              *)
(***************************************************************************)
\* the transcode job of item assembly a has returned
ItemJobReturned(a) ==
    asm_kind[a] = "item" /\ asm_pc[a] = "transcoding" /\ job_pc[a] = "done"

\* the job that returned reported an undersized output (it returned False)
ReportedUndersized(a) == ItemJobReturned(a) /\ job_result[a] = "False"

\* the job that returned raised an error
JobRaised(a) == ItemJobReturned(a) /\ job_result[a] \in {"drm_error", "error"}

\* C39: in the collection context an item whose first transcode job
\* reports failure by undersized output is transcoded exactly once more
\* before being skipped (so one item causes at most 2 transcode jobs and at
\* most 4 encoder invocations), while a transcode job that raises an error
\* is not repeated.
C39_UndersizedRepeatedOnceErrorsNever ==
    /\ [](\A a \in Assemblies :
            /\ asm_transcodes[a] <= 2
            /\ encoder_total[a] <= 4
            /\ (asm_kind[a] = "item" /\ asm_pc[a] = "done"
                   /\ asm_outcome[a] = "None" /\ asm_transcodes[a] >= 1)
                  => asm_transcodes[a] = 2 /\ job_result[a] = "False")
    /\ [][\A a \in Assemblies :
            /\ (ReportedUndersized(a) /\ asm_transcodes[a] = 1
                   /\ asm_pc'[a] # asm_pc[a])
                  => FALSE
            /\ (ReportedUndersized(a) /\ asm_transcodes[a] = 1
                   /\ job_pc'[a] # job_pc[a])
                  => asm_transcodes'[a] = 2 /\ job_pc'[a] = "waiting"
            /\ (ReportedUndersized(a) /\ asm_transcodes[a] = 2
                   /\ asm_pc'[a] # asm_pc[a])
                  => /\ asm_pc'[a] = "done" /\ asm_outcome'[a] = "None"
                     /\ job_pc'[a] = "done"
            /\ (JobRaised(a) /\ asm_pc'[a] # asm_pc[a])
                  => /\ asm_pc'[a] = "done"
                     /\ asm_outcome'[a] \in {"raised", "raised_drm"}
            /\ JobRaised(a)
                  => /\ job_pc'[a] = "done"
                     /\ asm_transcodes'[a] = asm_transcodes[a]]_vars

\* C39 witness: an item is skipped after two transcode jobs of two encoder
\* processes each, the second of which left an undersized file
C39_Witness ==
    \E a \in Assemblies :
        /\ asm_kind[a] = "item" /\ asm_pc[a] = "done"
        /\ asm_outcome[a] = "None"
        /\ asm_transcodes[a] = 2
        /\ encoder_total[a] = 4

(***************************************************************************)
(* Properties of the batch lookup.                                         *)
(***************************************************************************)
\* the lookup is all-or-nothing: every request is for at most BATCH_SIZE
\* ids; a call that returns without a failed request has requested every
\* id, chunk by chunk, and returns the entries of every answer; a failed
\* request is the last one and the call returns an empty mapping
BatchAllOrNothing ==
    /\ \A k \in 1..Len(batch_sent) :
          Len(batch_sent[k]) >= 1 /\ Len(batch_sent[k]) <= BATCH_SIZE
    /\ (batch_pc = "returned" /\ ~batch_error)
          => /\ Flatten(batch_sent) = track_ids
             /\ batch_return = batch_found
    /\ batch_error => batch_pc = "returned" /\ batch_return = {}

\* C40: the batch lookup of tracks by id is all-or-nothing: it returns
\* entries from every chunk of at most BATCH_SIZE ids when all chunk
\* requests succeed, and returns an empty mapping (discarding earlier
\* chunks' results) as soon as any chunk request fails; it never raises.
C40_BatchLookupAllOrNothingNeverRaises ==
    /\ BatchAllOrNothing
    /\ batch_pc # "raised"

====
